---- MODULE Spec2Model ----
(***************************************************************************)
(* The 2048 move engine (game/gameLogic.ts), the game state controller     *)
(* (game/gameState.ts) and the configuration validator, as a state machine. *)
(*                                                                         *)
(* A Tile is a record [id, value, position, mergedFrom]; an absent          *)
(* mergedFrom (undefined) is the empty sequence.  A grid is a function      *)
(* 0..n-1 -> 0..n-1 -> Tile or null, indexed as grid[row][col].            *)
(***************************************************************************)
EXTENDS Integers, Sequences, FiniteSets, TLC

VARIABLES
    config,         \* the GameConfig handed to validateGameConfig / initializeGame
    state,          \* the GameState held by the caller (noState before there is one)
    tileIdCounter,  \* module-level counter of generateTileId
    res,            \* what the last call returned
    trail,          \* history variable: the live states from the fresh game to now
    made            \* history variable: committed moves since the fresh game

vars == <<config, state, tileIdCounter, res, trail, made>>

(***************************************************************************)
(* JavaScript numbers of a configuration.  [k, r, h] stands for            *)
(* k * 2^32 + r + h/2 with |r| < 2^30 and h in {0,1}: enough to tell       *)
(* integers from non-integers and to keep what ToInt32 keeps.              *)
(***************************************************************************)
Num(n) == [k |-> 0, r |-> n, h |-> 0]

Half(n) == [k |-> 0, r |-> n, h |-> 1]

Wide(k, n) == [k |-> k, r |-> n, h |-> 0]

NumGT(n, c) == n.k > 0 \/ (n.k = 0 /\ (n.r > c \/ (n.r = c /\ n.h = 1)))

NumLT(n, c) == n.k < 0 \/ (n.k = 0 /\ n.r < c)

IsInteger(n) == n.h = 0

Minus1(n) == [n EXCEPT !.r = n.r - 1]

\* ToInt32: truncate toward zero, keep the low 32 bits (k * 2^32 vanishes)
ToInt32(n) == IF n.h = 1 /\ NumLT(n, 0) THEN n.r + 1 ELSE n.r

\* a & b on two's complement integers
RECURSIVE BitAnd(_, _)
BitAnd(a, b) ==
    IF a = 0 \/ b = 0 THEN 0
    ELSE IF a = -1 THEN b
    ELSE IF b = -1 THEN a
    ELSE (a % 2) * (b % 2) + 2 * BitAnd(a \div 2, b \div 2)

\* value of a number that is a small integer (tile values of a valid game)
IntOf(n) == n.r

(***************************************************************************)
(* Enumerations                                                            *)
(***************************************************************************)
Up == "UP"
Down == "DOWN"
Left == "LEFT"
Right == "RIGHT"
Direction == {Up, Down, Left, Right}

Playing == "PLAYING"
Won == "WON"
Lost == "LOST"
GameStatus == {Playing, Won, Lost}

(***************************************************************************)
(* Grid primitives                                                         *)
(***************************************************************************)
null == [null |-> TRUE]

nullCell == [nullCell |-> TRUE]

Cell(row, col) == [row |-> row, col |-> col]

\* generateTileId: the Date.now() prefix is dropped, the counter makes it unique
createTile(position, value, counter) ==
    [id |-> counter, value |-> value, position |-> position, mergedFrom |-> <<>>]

createEmptyGrid(size) == [row \in 0 .. size - 1 |-> [col \in 0 .. size - 1 |-> null]]

gridLength(grid) == Cardinality(DOMAIN grid)

cloneTile(tile) ==
    [id |-> tile.id, value |-> tile.value,
     position |-> Cell(tile.position.row, tile.position.col),
     mergedFrom |-> [i \in DOMAIN tile.mergedFrom |-> tile.mergedFrom[i]]]

cloneGrid(grid) ==
    [row \in DOMAIN grid |->
        [col \in DOMAIN grid[row] |->
            IF grid[row][col] # null THEN cloneTile(grid[row][col]) ELSE null]]

\* cells in row-major order
RowMajor(grid) ==
    LET n == gridLength(grid)
    IN  [i \in 1 .. n * n |-> Cell((i - 1) \div n, (i - 1) % n)]

getEmptyCells(grid) ==
    SelectSeq(RowMajor(grid), LAMBDA c : grid[c.row][c.col] = null)

getAllTiles(grid) ==
    LET occupied == SelectSeq(RowMajor(grid), LAMBDA c : grid[c.row][c.col] # null)
    IN  [i \in DOMAIN occupied |-> grid[occupied[i].row][occupied[i].col]]

(***************************************************************************)
(* Move engine                                                             *)
(***************************************************************************)
\* getTraversalOrder that always starts at the top row and the left column
getTraversalOrderAscending(direction, gridSize) ==
    [i \in 1 .. gridSize * gridSize |->
        LET outer == (i - 1) \div gridSize
            inner == (i - 1) % gridSize
        IN  IF direction \in {Up, Down} THEN Cell(inner, outer) ELSE Cell(outer, inner)]

getTraversalOrder(direction, gridSize) ==
    [i \in 1 .. gridSize * gridSize |->
        LET outer == (i - 1) \div gridSize
            inner == (i - 1) % gridSize
        IN  CASE direction = Up    -> Cell(inner, outer)
              [] direction = Down  -> Cell(gridSize - 1 - inner, outer)
              [] direction = Left  -> Cell(outer, inner)
              [] direction = Right -> Cell(outer, gridSize - 1 - inner)]

getNextCell(cell, direction) ==
    CASE direction = Up    -> IF cell.row > 0 THEN Cell(cell.row - 1, cell.col) ELSE nullCell
      [] direction = Down  -> Cell(cell.row + 1, cell.col)
      [] direction = Left  -> IF cell.col > 0 THEN Cell(cell.row, cell.col - 1) ELSE nullCell
      [] direction = Right -> Cell(cell.row, cell.col + 1)

isWithinBounds(cell, gridSize) ==
    cell.row >= 0 /\ cell.row < gridSize /\ cell.col >= 0 /\ cell.col < gridSize

\* the while loop of findFarthestPosition
RECURSIVE Walk(_, _, _, _, _)
Walk(previous, current, direction, grid, mergedCells) ==
    IF current # nullCell /\ isWithinBounds(current, gridLength(grid))
       /\ ~(grid[current.row][current.col] # null \/ current \in mergedCells)
    THEN Walk(current, getNextCell(current, direction), direction, grid, mergedCells)
    ELSE [previous |-> previous, current |-> current]

\* what findFarthestPosition returns once its loop has ended in w
farthestAndNext(w, gridSize) ==
    [farthest |-> w.previous,
     next |-> IF w.current # nullCell /\ isWithinBounds(w.current, gridSize)
              THEN w.current ELSE nullCell]

findFarthestPosition(position, direction, grid, mergedCells) ==
    farthestAndNext(Walk(position, getNextCell(position, direction), direction, grid,
                         mergedCells),
                    gridLength(grid))

\* placeTile that takes a tile for moved only when it slid
placeTileSlidOnly(tile, finalTile, newPosition, merged, acc) ==
    [grid |-> [acc.grid EXCEPT ![newPosition.row][newPosition.col] = finalTile],
     mergedCells |-> IF merged THEN acc.mergedCells \cup {newPosition} ELSE acc.mergedCells,
     mergedTiles |-> IF merged THEN Append(acc.mergedTiles, finalTile) ELSE acc.mergedTiles,
     moved |-> acc.moved \/ (~merged /\ (newPosition.row # tile.position.row
                                          \/ newPosition.col # tile.position.col)),
     score |-> IF merged THEN acc.score + finalTile.value ELSE acc.score,
     counter |-> IF merged THEN acc.counter + 1 ELSE acc.counter]

\* placeTile that scores a merge with the value of the moving tile
placeTileHalfScore(tile, finalTile, newPosition, merged, acc) ==
    [grid |-> [acc.grid EXCEPT ![newPosition.row][newPosition.col] = finalTile],
     mergedCells |-> IF merged THEN acc.mergedCells \cup {newPosition} ELSE acc.mergedCells,
     mergedTiles |-> IF merged THEN Append(acc.mergedTiles, finalTile) ELSE acc.mergedTiles,
     moved |-> acc.moved \/ newPosition.row # tile.position.row
                         \/ newPosition.col # tile.position.col,
     score |-> IF merged THEN acc.score + tile.value ELSE acc.score,
     counter |-> IF merged THEN acc.counter + 1 ELSE acc.counter]

\* the locals of performMove after one tile was placed: finalTile at newPosition
placeTile(tile, finalTile, newPosition, merged, acc) ==
    [grid |-> [acc.grid EXCEPT ![newPosition.row][newPosition.col] = finalTile],
     mergedCells |-> IF merged THEN acc.mergedCells \cup {newPosition} ELSE acc.mergedCells,
     mergedTiles |-> IF merged THEN Append(acc.mergedTiles, finalTile) ELSE acc.mergedTiles,
     moved |-> acc.moved \/ newPosition.row # tile.position.row
                         \/ newPosition.col # tile.position.col,
     score |-> IF merged THEN acc.score + finalTile.value ELSE acc.score,
     counter |-> IF merged THEN acc.counter + 1 ELSE acc.counter]

\* canMerge without the test of mergedCells
canMergeAgain(tile, nextTile, next, mergedCells) ==
    nextTile # null /\ nextTile.value = tile.value

\* nextTile && nextTile.value === tile.value && !mergedCells.has(nextCellKey)
canMerge(tile, nextTile, next, mergedCells) ==
    nextTile # null /\ nextTile.value = tile.value /\ next \notin mergedCells

\* mergeTiles that gives the merged tile the value of the moving tile
mergeTilesUndoubled(tile, nextTile, next, acc) ==
    placeTile(tile,
              [createTile(next, tile.value, acc.counter)
                  EXCEPT !.mergedFrom = <<tile, nextTile>>],
              next, TRUE, acc)

mergeTiles(tile, nextTile, next, acc) ==
    placeTile(tile,
              [createTile(next, tile.value * 2, acc.counter)
                  EXCEPT !.mergedFrom = <<tile, nextTile>>],
              next, TRUE, acc)

\* slideTile that stores the tile without giving it its new position
slideTileStale(tile, farthest, acc) ==
    placeTile(tile, tile, farthest, FALSE, acc)

slideTile(tile, farthest, acc) ==
    placeTile(tile, [tile EXCEPT !.position = farthest], farthest, FALSE, acc)

\* one iteration of the for loop of performMove for a tile, fp being the result
\* of findFarthestPosition
moveTile(tile, fp, acc) ==
    IF fp.next # nullCell
       /\ canMerge(tile, acc.grid[fp.next.row][fp.next.col], fp.next, acc.mergedCells)
    THEN mergeTiles(tile, acc.grid[fp.next.row][fp.next.col], fp.next, acc)
    ELSE slideTile(tile, fp.farthest, acc)

MoveStep(grid, direction, cell, acc) ==
    IF grid[cell.row][cell.col] = null THEN acc
    ELSE moveTile(grid[cell.row][cell.col],
                  findFarthestPosition(cell, direction, acc.grid, acc.mergedCells),
                  acc)

RECURSIVE MoveLoop(_, _, _, _, _)
MoveLoop(i, order, grid, direction, acc) ==
    IF i > Len(order) THEN acc
    ELSE MoveLoop(i + 1, order, grid, direction, MoveStep(grid, direction, order[i], acc))

moveResult(end) ==
    [grid |-> end.grid, moved |-> end.moved, score |-> end.score,
     mergedTiles |-> end.mergedTiles, counter |-> end.counter]

\* performMove; counter is the value of tileIdCounter before and after the call
performMove(grid, direction, counter) ==
    moveResult(MoveLoop(1, getTraversalOrder(direction, gridLength(grid)), grid, direction,
                        [grid |-> createEmptyGrid(gridLength(grid)), mergedCells |-> {},
                         mergedTiles |-> <<>>, moved |-> FALSE, score |-> 0,
                         counter |-> counter]))

(***************************************************************************)
(* Spawn selector.  Probabilities and the draws of Math.random() are       *)
(* counted in ten-thousandths (a draw is in 0 .. ProbUnit - 1).            *)
(***************************************************************************)
ProbUnit == 10000

RECURSIVE SelectLoop(_, _, _, _)
SelectLoop(i, spawnValues, random, cumulative) ==
    IF i > Len(spawnValues) THEN spawnValues[1].value
    ELSE IF random <= cumulative + spawnValues[i].probability THEN spawnValues[i].value
    ELSE SelectLoop(i + 1, spawnValues, random, cumulative + spawnValues[i].probability)

selectSpawnValue(spawnValues, random) == SelectLoop(1, spawnValues, random, 0)

placeNewTile(grid, newTile, counter) ==
    [grid |-> [cloneGrid(grid) EXCEPT ![newTile.position.row][newTile.position.col] = newTile],
     counter |-> counter + 1]

\* spawnInto that scales the draw by the number of empty cells less one
spawnIntoShort(grid, emptyCells, spawnValues, cellDraw, valueDraw, counter) ==
    IF Len(emptyCells) = 0 THEN [grid |-> null, counter |-> counter]
    ELSE placeNewTile(grid,
                      createTile(emptyCells[(cellDraw * (Len(emptyCells) - 1)) \div ProbUnit + 1],
                                 IntOf(selectSpawnValue(spawnValues, valueDraw)), counter),
                      counter)

\* spawnInto that gives up when a single cell is empty
spawnIntoNeedsTwo(grid, emptyCells, spawnValues, cellDraw, valueDraw, counter) ==
    IF Len(emptyCells) <= 1 THEN [grid |-> null, counter |-> counter]
    ELSE placeNewTile(grid,
                      createTile(emptyCells[(cellDraw * Len(emptyCells)) \div ProbUnit + 1],
                                 IntOf(selectSpawnValue(spawnValues, valueDraw)), counter),
                      counter)

spawnInto(grid, emptyCells, spawnValues, cellDraw, valueDraw, counter) ==
    IF Len(emptyCells) = 0 THEN [grid |-> null, counter |-> counter]
    ELSE placeNewTile(grid,
                      createTile(emptyCells[(cellDraw * Len(emptyCells)) \div ProbUnit + 1],
                                 IntOf(selectSpawnValue(spawnValues, valueDraw)), counter),
                      counter)

\* the two draws of Math.random(): cellDraw picks the cell, valueDraw the value
spawnRandomTile(grid, spawnValues, cellDraw, valueDraw, counter) ==
    spawnInto(grid, getEmptyCells(grid), spawnValues, cellDraw, valueDraw, counter)

(***************************************************************************)
(* Status evaluator                                                        *)
(***************************************************************************)
\* adjacentCells that names the neighbours in the row only
adjacentCellsInRow(row, col) ==
    <<Cell(row, col - 1), Cell(row, col + 1), Cell(row, col - 1), Cell(row, col + 1)>>

adjacentCells(row, col) ==
    <<Cell(row - 1, col), Cell(row + 1, col), Cell(row, col - 1), Cell(row, col + 1)>>

\* hasMovesAvailable that looks for empty cells only
hasMovesAvailableEmptyOnly(grid) == Len(getEmptyCells(grid)) > 0

hasMovesAvailable(grid) ==
    LET gridSize == gridLength(grid)
    IN  \/ Len(getEmptyCells(grid)) > 0
        \/ \E row \in 0 .. gridSize - 1, col \in 0 .. gridSize - 1 :
              /\ grid[row][col] # null
              /\ \E i \in 1 .. 4 :
                    LET adjCell == adjacentCells(row, col)[i]
                    IN  /\ isWithinBounds(adjCell, gridSize)
                        /\ grid[adjCell.row][adjCell.col] # null
                        /\ grid[adjCell.row][adjCell.col].value = grid[row][col].value

\* tile.value >= targetValue
hasWon(grid, targetValue) ==
    LET tiles == getAllTiles(grid)
    IN  \E i \in DOMAIN tiles : ~NumGT(targetValue, tiles[i].value)

\* determineGameStatus that does not read currentStatus and tests for a lost
\* game first
determineGameStatusAfresh(grid, targetValue, currentStatus) ==
    IF ~hasMovesAvailable(grid) THEN Lost
    ELSE IF hasWon(grid, targetValue) THEN Won
    ELSE Playing

\* determineGameStatus that tests for a lost game before it tests for a win
determineGameStatusLostFirst(grid, targetValue, currentStatus) ==
    IF currentStatus = Won THEN Won
    ELSE IF ~hasMovesAvailable(grid) THEN Lost
    ELSE IF hasWon(grid, targetValue) THEN Won
    ELSE Playing

\* three parameters: a fourth argument of a call is not read
determineGameStatus(grid, targetValue, currentStatus) ==
    IF currentStatus = Won THEN Won
    ELSE IF hasWon(grid, targetValue) THEN Won
    ELSE IF ~hasMovesAvailable(grid) THEN Lost
    ELSE Playing

(***************************************************************************)
(* Configuration validator                                                 *)
(***************************************************************************)
MinGridSize == 3
MaxGridSize == 6
Tolerance == 10

ErrGridSize == "Grid size must be between 3 and 6"
ErrTargetPositive == "Target value must be a positive integer"
ErrTargetPower == "Target value should be a power of 2"
ErrSpawnEmpty == "At least one spawn value must be configured"
ErrSpawnSum == "Spawn value probabilities must sum to 1.0"
ErrSpawnValue == "Spawn values must be positive integers"
ErrSpawnProbability == "Spawn probabilities must be between 0 and 1"

RECURSIVE totalProbability(_)
totalProbability(spawnValues) ==
    IF spawnValues = <<>> THEN 0
    ELSE spawnValues[1].probability + totalProbability(Tail(spawnValues))

Abs(x) == IF x < 0 THEN -x ELSE x

\* the for loop over config.spawnValues
RECURSIVE SpawnErrors(_)
SpawnErrors(spawnValues) ==
    IF spawnValues = <<>> THEN <<>>
    ELSE LET sv == spawnValues[1]
         IN  (IF ~NumGT(sv.value, 0) \/ ~IsInteger(sv.value)
              THEN <<ErrSpawnValue>> ELSE <<>>)
             \o (IF sv.probability < 0 \/ sv.probability > ProbUnit
                 THEN <<ErrSpawnProbability>> ELSE <<>>)
             \o SpawnErrors(Tail(spawnValues))

validateGameConfig(cfg) ==
    (IF NumLT(cfg.gridSize, MinGridSize) \/ NumGT(cfg.gridSize, MaxGridSize)
     THEN <<ErrGridSize>> ELSE <<>>)
    \o (IF ~NumGT(cfg.targetValue, 0) \/ ~IsInteger(cfg.targetValue)
        THEN <<ErrTargetPositive>> ELSE <<>>)
    \o (IF BitAnd(ToInt32(cfg.targetValue), ToInt32(Minus1(cfg.targetValue))) # 0
        THEN <<ErrTargetPower>> ELSE <<>>)
    \o (IF Len(cfg.spawnValues) = 0 THEN <<ErrSpawnEmpty>>
        ELSE (IF Abs(totalProbability(cfg.spawnValues) - ProbUnit) > Tolerance
              THEN <<ErrSpawnSum>> ELSE <<>>)
             \o SpawnErrors(cfg.spawnValues))

(***************************************************************************)
(* Game state controller.  A GameState is a record [grid, score, status,   *)
(* previousStates, config, moveCount, wonAndContinued]; a wonAndContinued   *)
(* that was never set (undefined) is FALSE.  config.maxUndoStates is <<>>   *)
(* when the field is omitted and <<n>> when it is given.                   *)
(***************************************************************************)
DefaultMaxUndoStates == 10

noState == [noState |-> TRUE]

\* cloneGameState that copies the history whatever includePreviousStates says
cloneGameStateWithHistory(s, includePreviousStates) ==
    LET one(t) == [grid |-> cloneGrid(t.grid), score |-> t.score, status |-> t.status,
                   previousStates |-> <<>>, config |-> t.config,
                   moveCount |-> t.moveCount, wonAndContinued |-> t.wonAndContinued]
    IN  [one(s) EXCEPT !.previousStates =
            [i \in DOMAIN s.previousStates |-> one(s.previousStates[i])]]

cloneGameState(s, includePreviousStates) ==
    LET one(t) == [grid |-> cloneGrid(t.grid), score |-> t.score, status |-> t.status,
                   previousStates |-> <<>>, config |-> t.config,
                   moveCount |-> t.moveCount, wonAndContinued |-> t.wonAndContinued]
    IN  [one(s) EXCEPT !.previousStates =
            IF includePreviousStates
            THEN [i \in DOMAIN s.previousStates |-> one(s.previousStates[i])]
            ELSE <<>>]

\* Array.prototype.slice(0, end)
Slice(seq, end) ==
    LET last == IF end < 0
                THEN (IF Len(seq) + end < 0 THEN 0 ELSE Len(seq) + end)
                ELSE (IF end > Len(seq) THEN Len(seq) ELSE end)
    IN  SubSeq(seq, 1, last)

\* state.config.maxUndoStates || 10
maxUndoStatesOr10(cfg) ==
    IF cfg.maxUndoStates = <<>> \/ cfg.maxUndoStates[1] = 0
    THEN DefaultMaxUndoStates ELSE cfg.maxUndoStates[1]

failed(threw, errors, counter) ==
    [threw |-> threw, errors |-> errors, state |-> noState, counter |-> counter]

initialState(cfg, second) ==
    IF second.grid = null THEN failed("spawn", <<>>, second.counter)
    ELSE [threw |-> "none", errors |-> <<>>, counter |-> second.counter,
          state |-> [grid |-> second.grid, score |-> 0, status |-> Playing,
                     previousStates |-> <<>>, config |-> cfg, moveCount |-> 0,
                     wonAndContinued |-> FALSE]]

spawnSecond(cfg, first, cell2, value2) ==
    IF first.grid = null THEN failed("spawn", <<>>, first.counter)
    ELSE initialState(cfg, spawnRandomTile(first.grid, cfg.spawnValues, cell2, value2,
                                           first.counter))

\* initializeChecked whose error names only the first violation
initializeCheckedFirstError(cfg, errors, cell1, value1, cell2, value2, counter) ==
    IF Len(errors) > 0 THEN failed("config", <<errors[1]>>, counter)
    ELSE IF ~IsInteger(cfg.gridSize) THEN failed("range", <<>>, counter)
    ELSE spawnSecond(cfg,
                     spawnRandomTile(createEmptyGrid(IntOf(cfg.gridSize)), cfg.spawnValues,
                                     cell1, value1, counter),
                     cell2, value2)

initializeChecked(cfg, errors, cell1, value1, cell2, value2, counter) ==
    IF Len(errors) > 0 THEN failed("config", errors, counter)
    ELSE IF ~IsInteger(cfg.gridSize) THEN failed("range", <<>>, counter)
    ELSE spawnSecond(cfg,
                     spawnRandomTile(createEmptyGrid(IntOf(cfg.gridSize)), cfg.spawnValues,
                                     cell1, value1, counter),
                     cell2, value2)

\* initializeGame: threw is "none", "config" (invalid configuration), "range"
\* (createEmptyGrid's Array(size) with a size that is no array length) or "spawn"
initializeGame(cfg, cell1, value1, cell2, value2, counter) ==
    initializeChecked(cfg, validateGameConfig(cfg), cell1, value1, cell2, value2, counter)

\* what move returns when it returns the state it was given
unchanged(s, counter) ==
    [newState |-> s, moved |-> FALSE, score |-> 0, mergedTiles |-> <<>>,
     same |-> TRUE, counter |-> counter]

\* commit whose new score is the gain of the move alone
commitGainOnly(s, pm, spawn) ==
    IF spawn.grid = null THEN unchanged(s, pm.counter)
    ELSE [newState |->
              [grid |-> spawn.grid, score |-> pm.score,
               status |-> determineGameStatus(spawn.grid, s.config.targetValue, s.status),
               previousStates |-> Slice(<<cloneGameState(s, FALSE)>> \o s.previousStates,
                                        maxUndoStatesOr10(s.config)),
               config |-> s.config, moveCount |-> s.moveCount + 1,
               wonAndContinued |-> s.wonAndContinued],
          moved |-> TRUE, score |-> pm.score, mergedTiles |-> pm.mergedTiles,
          same |-> FALSE, counter |-> spawn.counter]

\* the new state of a committed move and its report
commit(s, pm, spawn) ==
    IF spawn.grid = null THEN unchanged(s, pm.counter)
    ELSE [newState |->
              [grid |-> spawn.grid, score |-> s.score + pm.score,
               status |-> determineGameStatus(spawn.grid, s.config.targetValue, s.status),
               previousStates |-> Slice(<<cloneGameState(s, FALSE)>> \o s.previousStates,
                                        maxUndoStatesOr10(s.config)),
               config |-> s.config, moveCount |-> s.moveCount + 1,
               wonAndContinued |-> s.wonAndContinued],
          moved |-> TRUE, score |-> pm.score, mergedTiles |-> pm.mergedTiles,
          same |-> FALSE, counter |-> spawn.counter]

\* what stands for the result of performMove when move returns before the call
notPerformed(s, counter) ==
    [grid |-> s.grid, moved |-> FALSE, score |-> 0, mergedTiles |-> <<>>,
     counter |-> counter]

\* moveAfter without the early return of a move that moved nothing
moveAfterAlways(s, pm, cellDraw, valueDraw) ==
    commit(s, pm,
           spawnRandomTile(pm.grid, s.config.spawnValues, cellDraw, valueDraw,
                           pm.counter))

\* move from the call of performMove (whose result is pm) on; same tells that
\* newState is the very object that was passed in
moveAfter(s, pm, cellDraw, valueDraw) ==
    IF ~pm.moved THEN unchanged(s, pm.counter)
    ELSE commit(s, pm,
                spawnRandomTile(pm.grid, s.config.spawnValues, cellDraw, valueDraw,
                                pm.counter))

\* undo that leaves the restored entry in the history
undoKeepingEntry(s) ==
    IF Len(s.previousStates) = 0 THEN [state |-> s, same |-> TRUE]
    ELSE [state |-> [s.previousStates[1] EXCEPT !.previousStates = s.previousStates],
          same |-> FALSE]

undo(s) ==
    IF Len(s.previousStates) = 0 THEN [state |-> s, same |-> TRUE]
    ELSE [state |-> [s.previousStates[1] EXCEPT
                        !.previousStates = Tail(s.previousStates)],
          same |-> FALSE]

\* continueAfterWin that starts the undo history afresh
continueAfterWinCleared(s) ==
    IF s.status # Won THEN [state |-> s, same |-> TRUE]
    ELSE [state |-> [s EXCEPT !.status = Playing, !.wonAndContinued = TRUE,
                              !.previousStates = <<>>],
          same |-> FALSE]

continueAfterWin(s) ==
    IF s.status # Won THEN [state |-> s, same |-> TRUE]
    ELSE [state |-> [s EXCEPT !.status = Playing, !.wonAndContinued = TRUE],
          same |-> FALSE]

(***************************************************************************)
(* Bounds and inputs of the model                                          *)
(***************************************************************************)
MaxMoves == 2
MaxExponent == 2
MaxTiles == 4
MaxEmpty == 0
MaxSavedMoves == 1
MaxTileIds == 4

Max(a, b) == IF a > b THEN a ELSE b

\* the draws of Math.random() the model takes, in ten-thousandths: for the cell
\* (first, middle, last empty cell) and for the value (first entry, last entry)
CellDraws == {0, 5000, 9999}

ValueDraws == {0, 9999}

SpawnTwo == <<[value |-> Num(2), probability |-> ProbUnit]>>

SpawnTwoFour == <<[value |-> Num(2), probability |-> 5000],
                  [value |-> Num(4), probability |-> 5000]>>

GameConfigWith(spawnValues, maxUndoStates) ==
    [gridSize |-> Num(MinGridSize), targetValue |-> Num(4),
     spawnValues |-> spawnValues, maxUndoStates |-> maxUndoStates]

\* a spawn table that validateGameConfig accepts: its value is a positive integer
SpawnThree == <<[value |-> Num(3), probability |-> ProbUnit]>>

\* configurations of the games played from initializeGame
GameConfigs ==
    {GameConfigWith(SpawnTwo, m) : m \in {<<0>>, <<1>>, <<2>>}}
        \cup {GameConfigWith(SpawnThree, <<1>>)}

Values(grid) ==
    [row \in DOMAIN grid |->
        [col \in DOMAIN grid[row] |->
            IF grid[row][col] = null THEN 0 ELSE grid[row][col].value]]

Snapshot(s) ==
    [score |-> s.score, moveCount |-> s.moveCount, status |-> s.status,
     values |-> Values(s.grid)]

NoRes ==
    [op |-> "none", direction |-> "", moved |-> FALSE, score |-> 0, mergedTiles |-> <<>>,
     same |-> FALSE, grid |-> null, errors |-> <<>>, threw |-> "none", status |-> ""]

(***************************************************************************)
(* Spec: a game played from initializeGame by move, undo, continueAfterWin *)
(***************************************************************************)
FreshGames(cfg, counter) ==
    {initializeGame(cfg, cell1, value1, cell2, value2, counter) :
        cell1 \in CellDraws, value1 \in ValueDraws,
        cell2 \in CellDraws, value2 \in ValueDraws}

Started(g) ==
    /\ state = g.state
    /\ tileIdCounter = g.counter
    /\ trail = <<Snapshot(g.state)>>
    /\ res = [NoRes EXCEPT !.op = "initializeGame"]
    /\ made = 0

Init ==
    /\ config \in GameConfigs
    /\ \E g \in FreshGames(config, 0) : Started(g)

Moved(direction, m) ==
    /\ state' = m.newState
    /\ tileIdCounter' = m.counter
    /\ res' = [NoRes EXCEPT !.op = "move", !.direction = direction, !.moved = m.moved,
                            !.score = m.score, !.mergedTiles = m.mergedTiles,
                            !.same = m.same]
    /\ trail' = IF m.moved THEN Append(trail, Snapshot(m.newState)) ELSE trail
    /\ made' = IF m.moved THEN made + 1 ELSE made
    /\ UNCHANGED config

\* the draws of a call of move whose performMove returned pm
MoveDraws(direction, pm, limit) ==
    /\ pm.moved => made < limit
    /\ \E cellDraw \in (IF pm.moved THEN CellDraws ELSE {0}),
          valueDraw \in (IF pm.moved THEN ValueDraws ELSE {0}) :
          Moved(direction, moveAfter(state, pm, cellDraw, valueDraw))

\* a call of move: a lost game returns before performMove is called; the
\* result of performMove is computed once for all draws
MoveWithin(direction, limit) ==
    /\ state # noState
    /\ MoveDraws(direction,
                 IF state.status = Lost
                 THEN notPerformed(state, tileIdCounter)
                 ELSE performMove(state.grid, direction, tileIdCounter),
                 limit)

Move(direction) == MoveWithin(direction, MaxMoves)

Undone(u) ==
    /\ state' = u.state
    /\ res' = [NoRes EXCEPT !.op = "undo", !.same = u.same]
    /\ trail' = IF u.same THEN trail ELSE SubSeq(trail, 1, Len(trail) - 1)
    /\ UNCHANGED <<config, tileIdCounter, made>>

Undo ==
    /\ state # noState
    /\ Undone(undo(state))

Continued(c) ==
    /\ state' = c.state
    /\ res' = [NoRes EXCEPT !.op = "continueAfterWin", !.same = c.same]
    /\ trail' = [trail EXCEPT ![Len(trail)] = Snapshot(c.state)]
    /\ UNCHANGED <<config, tileIdCounter, made>>

ContinueAfterWin ==
    /\ state # noState
    /\ Continued(continueAfterWin(state))

Next ==
    \/ \E direction \in Direction : Move(direction)
    \/ Undo
    \/ ContinueAfterWin

Spec == Init /\ [][Next]_vars

(***************************************************************************)
(* Games restored from storage (useGame's loadGameState): the grid is any  *)
(* grid of the configured size, its tiles numbered by cell.                *)
(***************************************************************************)
RECURSIVE Pow2(_)
Pow2(e) == IF e = 0 THEN 1 ELSE 2 * Pow2(e - 1)

Cells(n) == (0 .. n - 1) \X (0 .. n - 1)

TileCount(values) == Cardinality({c \in DOMAIN values : values[c] # 0})

GridOf(values, n) ==
    [row \in 0 .. n - 1 |->
        [col \in 0 .. n - 1 |->
            IF values[<<row, col>>] = 0 THEN null
            ELSE [id |-> row * n + col, value |-> values[<<row, col>>],
                  position |-> Cell(row, col), mergedFrom |-> <<>>]]]

restored(cfg, values, status, wonAndContinued) ==
    [grid |-> GridOf(values, IntOf(cfg.gridSize)), score |-> 0, status |-> status,
     previousStates |-> <<>>, config |-> cfg,
     moveCount |-> Max(TileCount(values) - 2, 0), wonAndContinued |-> wonAndContinued]

Restored(s) ==
    /\ state = s
    /\ tileIdCounter = IntOf(s.config.gridSize) * IntOf(s.config.gridSize)
    /\ res = NoRes
    /\ trail = <<Snapshot(s)>>
    /\ made = 0

(***************************************************************************)
(* SpecPerformMove: performMove applied once to a grid of at most MaxTiles *)
(* tiles with values 2 .. 2^MaxExponent                                    *)
(***************************************************************************)
SparseValues ==
    {v \in [Cells(MinGridSize) -> {0} \cup {Pow2(e) : e \in 1 .. MaxExponent}] :
        TileCount(v) <= MaxTiles}

InitPerformMove ==
    /\ config = GameConfigWith(SpawnTwoFour, <<1>>)
    /\ \E v \in SparseValues : Restored(restored(config, v, Playing, FALSE))

Performed(direction, pm) ==
    /\ res' = [NoRes EXCEPT !.op = "performMove", !.direction = direction,
                            !.grid = pm.grid, !.moved = pm.moved, !.score = pm.score,
                            !.mergedTiles = pm.mergedTiles]
    /\ tileIdCounter' = pm.counter
    /\ UNCHANGED <<config, state, trail, made>>

PerformMove(direction) ==
    /\ res.op = "none"
    /\ Performed(direction, performMove(state.grid, direction, tileIdCounter))

NextPerformMove == \E direction \in Direction : PerformMove(direction)

SpecPerformMove == InitPerformMove /\ [][NextPerformMove]_vars

(***************************************************************************)
(* SpecSaved: a late game (a full board of tiles 2 and 4, target 8)        *)
(* restored from storage and played on for MaxSavedMoves moves.  The status *)
(* of the restored game is the one the game has with that grid.            *)
(***************************************************************************)
SavedConfig(target) ==
    [GameConfigWith(SpawnTwoFour, <<1>>) EXCEPT !.targetValue = Num(target)]

DenseValues ==
    {v \in [Cells(MinGridSize) -> {0, 2, 4}] :
        TileCount(v) >= MinGridSize * MinGridSize - MaxEmpty}

\* the status a game that was not continued has with this grid
statusOf(grid, targetValue) == determineGameStatus(grid, targetValue, Playing)

SavedGames(target) ==
    {restored(SavedConfig(target), v,
              statusOf(GridOf(v, MinGridSize), Num(target)), FALSE) : v \in DenseValues}

InitSaved ==
    /\ \E s \in SavedGames(8) : Restored(s)
    /\ config = state.config

NextSaved ==
    \/ \E direction \in Direction : MoveWithin(direction, MaxSavedMoves)
    \/ Undo
    \/ ContinueAfterWin

SpecSaved == InitSaved /\ [][NextSaved]_vars

(***************************************************************************)
(* SpecWon: a won game (a full board of tiles 2 and 4, target 4) restored  *)
(* from storage and played on by move and continueAfterWin                 *)
(***************************************************************************)
InitWon ==
    /\ \E s \in SavedGames(4) : s.status = Won /\ Restored(s)
    /\ config = state.config

NextWon ==
    \/ \E direction \in Direction : MoveWithin(direction, MaxSavedMoves)
    \/ ContinueAfterWin

SpecWon == InitWon /\ [][NextWon]_vars

(***************************************************************************)
(* SpecInit: validateGameConfig, initializeGame, resetGame and             *)
(* resetGameWithConfig applied to configurations of every kind.  A call    *)
(* that throws leaves the caller with the state it had.                    *)
(***************************************************************************)
InputGridSizes == {Num(2), Num(3), Half(3), Num(4), Num(7)}

InputTargets == {Num(-4), Num(0), Half(2), Num(4), Num(100), Wide(1, 4)}

InputSpawnValues ==
    {<<>>, SpawnTwo, SpawnTwoFour,
     <<[value |-> Num(2), probability |-> 9995]>>,
     <<[value |-> Num(2), probability |-> 5000], [value |-> Num(4), probability |-> 3000]>>,
     <<[value |-> Num(-2), probability |-> ProbUnit]>>,
     <<[value |-> Half(2), probability |-> ProbUnit]>>,
     <<[value |-> Num(2), probability |-> 15000], [value |-> Num(4), probability |-> -5000]>>}

InputConfigs ==
    {[gridSize |-> g, targetValue |-> t, spawnValues |-> sv, maxUndoStates |-> <<1>>] :
        g \in InputGridSizes, t \in InputTargets, sv \in InputSpawnValues}

\* the configurations a running game is reset to
ResetConfigs ==
    {[GameConfigWith(SpawnTwoFour, <<>>) EXCEPT !.gridSize = g] :
        g \in {Num(2), Half(3), Num(4)}}

InitInit ==
    /\ config \in InputConfigs
    /\ state = noState
    /\ tileIdCounter = 0
    /\ res = NoRes
    /\ trail = <<>>
    /\ made = 0

ValidateGameConfig ==
    /\ res' = [NoRes EXCEPT !.op = "validateGameConfig",
                            !.errors = validateGameConfig(config)]
    /\ UNCHANGED <<config, state, tileIdCounter, trail, made>>

\* the caller's state after a call of initializeGame that ended as g
Initialized(op, g) ==
    /\ state' = IF g.threw = "none" THEN g.state ELSE state
    /\ tileIdCounter' = g.counter
    /\ res' = [NoRes EXCEPT !.op = op, !.threw = g.threw, !.errors = g.errors]
    /\ UNCHANGED <<trail, made>>

InitializeWith(op, cfg) ==
    /\ tileIdCounter < MaxTileIds
    /\ \E g \in FreshGames(cfg, tileIdCounter) : Initialized(op, g)

InitializeGame ==
    /\ InitializeWith("initializeGame", config)
    /\ UNCHANGED config

ResetGame ==
    /\ state # noState
    /\ InitializeWith("resetGame", state.config)
    /\ config' = state.config

ResetGameWithConfig ==
    \E newConfig \in ResetConfigs :
        /\ InitializeWith("resetGameWithConfig", newConfig)
        /\ config' = newConfig

NextInit ==
    \/ ValidateGameConfig
    \/ InitializeGame
    \/ ResetGame
    \/ ResetGameWithConfig

SpecInit == InitInit /\ [][NextInit]_vars

(***************************************************************************)
(* Properties of performMove (SpecPerformMove)                             *)
(***************************************************************************)
TilesOf(grid) ==
    {grid[row][col] : row \in DOMAIN grid, col \in DOMAIN grid} \ {null}

\* tile m is the tile u of the input grid, wherever it has slid to
IsInputTile(m, grid) ==
    \E u \in TilesOf(grid) : u.id = m.id /\ u.value = m.value /\ m.mergedFrom = <<>>

\* the ids of the input tiles that tile t of the output grid is made of
MadeOf(t) ==
    IF t.mergedFrom = <<>> THEN {t.id} ELSE {t.mergedFrom[i].id : i \in DOMAIN t.mergedFrom}

\* the values of line k of a grid, read from the edge the tiles move to
LineFromEdge(grid, direction, k) ==
    LET n == gridLength(grid)
    IN  [j \in 1 .. n |->
            CASE direction = Left  -> Values(grid)[k][j - 1]
              [] direction = Right -> Values(grid)[k][n - j]
              [] direction = Up    -> Values(grid)[j - 1][k]
              [] direction = Down  -> Values(grid)[n - j][k]]

\* a line of values, nearest the edge first, after one turn: each pair of equal
\* neighbours is merged once, the pair nearest the edge first
RECURSIVE MergeOnce(_)
MergeOnce(line) ==
    IF Len(line) < 2 THEN line
    ELSE IF line[1] = line[2]
         THEN <<2 * line[1]>> \o MergeOnce(SubSeq(line, 3, Len(line)))
         ELSE <<line[1]>> \o MergeOnce(Tail(line))

PackedLine(line) ==
    LET packed == MergeOnce(SelectSeq(line, LAMBDA v : v # 0))
    IN  [j \in 1 .. Len(line) |-> IF j <= Len(packed) THEN packed[j] ELSE 0]

RECURSIVE SumValues(_)
SumValues(tiles) ==
    IF tiles = <<>> THEN 0 ELSE tiles[1].value + SumValues(Tail(tiles))

\* C1: performMove never merges a tile twice in one turn.  Each tile of the
\* output grid is an input tile with its value, or the merge of exactly two
\* distinct input tiles of equal value, worth twice that value; no input tile
\* goes into two output tiles, and no tile made by a merge is merged again.
\* Every line is the input line packed toward the edge with the pairs nearest
\* the edge merged once (v,v,v gives 2v,v), and the score is the sum of the
\* values of the merged tiles.
C1_NoDoubleMerge ==
    res.op = "performMove" =>
        /\ \A t \in TilesOf(res.grid) :
              \/ IsInputTile(t, state.grid)
              \/ /\ Len(t.mergedFrom) = 2
                 /\ IsInputTile(t.mergedFrom[1], state.grid)
                 /\ IsInputTile(t.mergedFrom[2], state.grid)
                 /\ t.mergedFrom[1].id # t.mergedFrom[2].id
                 /\ t.mergedFrom[1].value = t.mergedFrom[2].value
                 /\ t.value = 2 * t.mergedFrom[1].value
                 /\ t.id \notin {u.id : u \in TilesOf(state.grid)}
        /\ \A t1, t2 \in TilesOf(res.grid) :
              t1 # t2 => MadeOf(t1) \cap MadeOf(t2) = {}
        /\ \A k \in DOMAIN state.grid :
              LineFromEdge(res.grid, res.direction, k)
                  = PackedLine(LineFromEdge(state.grid, res.direction, k))
        /\ res.score = SumValues(res.mergedTiles)
        /\ \A i \in DOMAIN res.mergedTiles : res.mergedTiles[i] \in TilesOf(res.grid)

\* a row 2,2,2 moved left has become 4,2,empty with score 4
C1_Witness ==
    /\ res.op = "performMove"
    /\ res.direction = Left
    /\ LineFromEdge(state.grid, Left, 0) = <<2, 2, 2>>
    /\ LineFromEdge(res.grid, Left, 0) = <<4, 2, 0>>
    /\ res.score = 4

GridSum(grid) == SumValues(getAllTiles(grid))

\* how many tiles of the grid have value v
CountOf(grid, v) == Cardinality({t \in TilesOf(grid) : t.value = v})

\* how many of the tiles merged in the move have value v
MergedOf(mergedTiles, v) ==
    Cardinality({i \in DOMAIN mergedTiles : mergedTiles[i].value = v})

TileValues == {Pow2(e) : e \in 1 .. MaxExponent + 1}

SameValues(grid1, grid2) == \A v \in TileValues : CountOf(grid1, v) = CountOf(grid2, v)

\* C2 as stated: the output grid of performMove has the multiset of values of
\* the input grid, or its sum is the input's sum plus the sum of the values of
\* the tiles created by merging.
C2_SumGrowsByMerged ==
    res.op = "performMove" =>
        \/ SameValues(res.grid, state.grid)
        \/ GridSum(res.grid) = GridSum(state.grid) + SumValues(res.mergedTiles)

\* C2 amended: performMove keeps the sum of the tile values.  Without a merge
\* the multiset of values is that of the input; each tile created by merging
\* replaces two tiles of half its value, so the multiset changes while the sum
\* stays what it was (sum after = sum before).
C2_SumKept ==
    res.op = "performMove" =>
        /\ GridSum(res.grid) = GridSum(state.grid)
        /\ res.mergedTiles = <<>> <=> SameValues(res.grid, state.grid)
        /\ \A v \in TileValues :
              CountOf(res.grid, v) =
                  CountOf(state.grid, v) + MergedOf(res.mergedTiles, v)
                      - 2 * MergedOf(res.mergedTiles, 2 * v)

\* a move that merged tiles: the values changed, their sum did not
C2_Witness ==
    /\ res.op = "performMove"
    /\ Len(res.mergedTiles) = 2
    /\ ~SameValues(res.grid, state.grid)
    /\ GridSum(res.grid) = GridSum(state.grid)

(***************************************************************************)
(* Properties of the controller                                            *)
(***************************************************************************)
\* some tile of the grid has, next to it in the direction, an empty cell or a
\* tile of its value
CanSlide(grid, direction) ==
    \E t \in TilesOf(grid) :
        LET to == CASE direction = Up    -> Cell(t.position.row - 1, t.position.col)
                    [] direction = Down  -> Cell(t.position.row + 1, t.position.col)
                    [] direction = Left  -> Cell(t.position.row, t.position.col - 1)
                    [] direction = Right -> Cell(t.position.row, t.position.col + 1)
        IN  /\ to.row \in DOMAIN grid
            /\ to.col \in DOMAIN grid
            /\ \/ grid[to.row][to.col] = null
               \/ grid[to.row][to.col].value = t.value

\* C3: soft no-ops return their input.  A move of a lost game, or in a
\* direction in which no tile can change position, returns the state it was
\* given (the same object, so grid, score and history are what they were) with
\* moved = false, score 0 and no merged tiles; undo with an empty history and
\* continueAfterWin of a game that is not won return the state they were given.
C3_SoftNoOps ==
    [][/\ (res'.op = "move"
              /\ (state.status = Lost \/ ~CanSlide(state.grid, res'.direction)))
          => (res'.same /\ state' = state /\ ~res'.moved /\ res'.score = 0
                 /\ res'.mergedTiles = <<>>)
       /\ (res'.op = "undo" /\ Len(state.previousStates) = 0)
          => (res'.same /\ state' = state)
       /\ (res'.op = "continueAfterWin" /\ state.status # Won)
          => (res'.same /\ state' = state)]_vars

\* a game that is neither lost nor full was moved in a direction in which no
\* tile can slide, and kept its history of one entry
C3_Witness ==
    /\ res.op = "move"
    /\ res.same
    /\ state.status = Playing
    /\ Len(getEmptyCells(state.grid)) > 0
    /\ ~CanSlide(state.grid, res.direction)
    /\ Len(state.previousStates) = 1

\* the maxUndoStates the configuration states: 10 when the field is omitted
StatedMaxUndoStates(cfg) ==
    IF cfg.maxUndoStates = <<>> THEN DefaultMaxUndoStates ELSE cfg.maxUndoStates[1]

\* C4: undo round trip.  While no more than maxUndoStates moves have been
\* made since the fresh game, the state held after any moves and undos has
\* the score, moveCount, status and grid values of the state that was live at
\* that depth (the initial state, with score 0 and moveCount 0, once every
\* move is undone), and its history holds exactly the states live at the
\* depths below, the latest first.
C4_UndoRoundTrip ==
    made <= StatedMaxUndoStates(config) =>
        /\ Snapshot(state) = trail[Len(trail)]
        /\ Len(state.previousStates) = Len(trail) - 1
        /\ \A i \in DOMAIN state.previousStates :
              /\ Snapshot(state.previousStates[i]) = trail[Len(trail) - i]
              /\ state.previousStates[i].previousStates = <<>>
        /\ Len(trail) = 1 => (state.score = 0 /\ state.moveCount = 0)

\* two moves were made and the second one undone: one entry is left
C4_Witness ==
    /\ res.op = "undo"
    /\ ~res.same
    /\ made = 2
    /\ made <= StatedMaxUndoStates(config)
    /\ Len(state.previousStates) = 1
    /\ state.moveCount = 1

\* C5: bounded history.  In every state reached from initializeGame(config)
\* by move, undo and continueAfterWin the history is no longer than the
\* maxUndoStates the configuration states (10 when it states none), and it
\* holds the latest states: the oldest entry is the one dropped.
C5_BoundedHistory ==
    /\ Len(state.previousStates) <= StatedMaxUndoStates(config)
    /\ \A i \in DOMAIN state.previousStates :
          Snapshot(state.previousStates[i]) = trail[Len(trail) - i]

\* C6: win stickiness.  Every call of move on a state whose status is Won,
\* committed or rejected, in any direction, returns a state whose status is
\* Won, also when the new grid is full with no equal neighbours.
C6_WinSticky ==
    [][(state.status = Won /\ res'.op = "move") => state'.status = Won]_vars

\* a committed move of a won game has left a full grid with no equal
\* neighbours, and the status is Won
C6_Witness ==
    /\ res.op = "move"
    /\ res.moved
    /\ Len(state.previousStates) = 1
    /\ state.previousStates[1].status = Won
    /\ ~hasMovesAvailable(state.grid)
    /\ state.status = Won
    /\ ~state.wonAndContinued

\* C7: after continueAfterWin (wonAndContinued = true) a successful move does
\* not set the status to Won again: the status after it is Playing or Lost.
C7_NotWonAgain ==
    [][(state.wonAndContinued /\ res'.op = "move" /\ res'.moved)
          => state'.status \in {Playing, Lost}]_vars

\* C8: losing is impossible after winning.  No state reached from a won game
\* by calls of move and continueAfterWin has status Lost: it is Won, or
\* Playing in a game that was continued.
C8_NeverLostAfterWon ==
    /\ state.status # Lost
    /\ state.status = Playing => state.wonAndContinued

\* a won game was continued and then moved into a full grid with no equal
\* neighbours
C8_Witness ==
    /\ res.op = "move"
    /\ res.moved
    /\ state.wonAndContinued
    /\ Len(state.previousStates) = 1
    /\ state.previousStates[1].status = Playing
    /\ ~hasMovesAvailable(state.grid)

(***************************************************************************)
(* Properties of validateGameConfig and initializeGame (SpecInit)          *)
(***************************************************************************)
InitializeOps == {"initializeGame", "resetGame", "resetGameWithConfig"}

\* C9: for every configuration that validateGameConfig accepts,
\* initializeGame, resetGame and resetGameWithConfig return a state whose
\* grid is gridSize x gridSize with exactly two tiles in two distinct cells,
\* each value one of spawnValues, score 0, moveCount 0, an empty history,
\* status Playing and the given config.
C9_InitializeShape ==
    (res.op \in InitializeOps /\ validateGameConfig(config) = <<>>) =>
        /\ res.threw = "none"
        /\ IsInteger(config.gridSize)
        /\ DOMAIN state.grid = 0 .. IntOf(config.gridSize) - 1
        /\ \A row \in DOMAIN state.grid :
              DOMAIN state.grid[row] = 0 .. IntOf(config.gridSize) - 1
        /\ Cardinality(TilesOf(state.grid)) = 2
        /\ Cardinality({t.position : t \in TilesOf(state.grid)}) = 2
        /\ \A t \in TilesOf(state.grid) :
              /\ state.grid[t.position.row][t.position.col] = t
              /\ \E i \in DOMAIN config.spawnValues :
                    config.spawnValues[i].value = Num(t.value)
        /\ state.score = 0
        /\ state.moveCount = 0
        /\ state.previousStates = <<>>
        /\ state.status = Playing
        /\ state.config = config

\* the number is a power of two
IsPowerOfTwo(n) ==
    /\ n.h = 0
    /\ \/ n.k = 0 /\ \E e \in 0 .. 29 : n.r = Pow2(e)
       \/ n.r = 0 /\ \E e \in 0 .. 29 : n.k = Pow2(e)

GridSizeInRange(cfg) ==
    ~NumLT(cfg.gridSize, MinGridSize) /\ ~NumGT(cfg.gridSize, MaxGridSize)

TargetIsPowerOfTwo(cfg) ==
    NumGT(cfg.targetValue, 0) /\ IsInteger(cfg.targetValue) /\ IsPowerOfTwo(cfg.targetValue)

SpawnValuesPositive(cfg) ==
    \A i \in DOMAIN cfg.spawnValues :
        NumGT(cfg.spawnValues[i].value, 0) /\ IsInteger(cfg.spawnValues[i].value)

ProbabilitiesInRange(cfg) ==
    \A i \in DOMAIN cfg.spawnValues : cfg.spawnValues[i].probability \in 0 .. ProbUnit

ProbabilitiesSumToOne(cfg) ==
    totalProbability(cfg.spawnValues) \in ProbUnit - Tolerance .. ProbUnit + Tolerance

Messages(errors) == {errors[i] : i \in DOMAIN errors}

\* C10: validateGameConfig returns the empty list exactly when gridSize is in
\* [3,6], targetValue is a positive integer power of two, spawnValues is not
\* empty, every spawn value is a positive integer, every probability is in
\* [0,1] and the probabilities sum to 1 within 0.001; otherwise the list has
\* a message for every one of these constraints that is violated.
C10_ValidateExact ==
    res.op = "validateGameConfig" =>
        /\ res.errors = <<>> <=>
              /\ GridSizeInRange(config)
              /\ TargetIsPowerOfTwo(config)
              /\ config.spawnValues # <<>>
              /\ SpawnValuesPositive(config)
              /\ ProbabilitiesInRange(config)
              /\ ProbabilitiesSumToOne(config)
        /\ ~GridSizeInRange(config) => ErrGridSize \in Messages(res.errors)
        /\ ~TargetIsPowerOfTwo(config)
              => Messages(res.errors) \cap {ErrTargetPositive, ErrTargetPower} # {}
        /\ config.spawnValues = <<>> => ErrSpawnEmpty \in Messages(res.errors)
        /\ ~SpawnValuesPositive(config) => ErrSpawnValue \in Messages(res.errors)
        /\ ~ProbabilitiesInRange(config) => ErrSpawnProbability \in Messages(res.errors)
        /\ (config.spawnValues # <<>> /\ ~ProbabilitiesSumToOne(config))
              => ErrSpawnSum \in Messages(res.errors)

\* C11: initializeGame, resetGame and resetGameWithConfig fail with a
\* configuration error exactly when validateGameConfig reports a violation of
\* the configuration they were given; the error carries every reported
\* violation, no GameState is produced (the caller keeps what it had) and no
\* tile is created.
C11_ConfigurationError ==
    [][res'.op \in InitializeOps =>
          /\ res'.threw = "config" <=> validateGameConfig(config') # <<>>
          /\ res'.threw = "config" =>
                /\ res'.errors = validateGameConfig(config')
                /\ state' = state
                /\ tileIdCounter' = tileIdCounter]_vars

\* initializeGame has failed on a configuration with three violations, and
\* there is no state
C11_Witness ==
    /\ res.op = "initializeGame"
    /\ res.threw = "config"
    /\ Len(res.errors) = 3
    /\ Len(validateGameConfig(config)) = 3
    /\ state = noState
    /\ tileIdCounter = 0

(***************************************************************************)
(* Invariants of the games played from initializeGame (Spec)               *)
(***************************************************************************)
\* the grids of a state: its own and those of its history entries
GridsOf(s) == {s.grid} \cup {s.previousStates[i].grid : i \in DOMAIN s.previousStates}

\* C12: in every state reached from initializeGame(config) by move, undo and
\* continueAfterWin, for a config that validateGameConfig accepts, every tile
\* of the grid and of the grid of every history entry has a value that is a
\* power of two and at least 2.
C12_PowersOfTwo ==
    validateGameConfig(config) = <<>> =>
        \A grid \in GridsOf(state) : \A t \in TilesOf(grid) :
            \E e \in 1 .. 30 : t.value = Pow2(e)

\* the cells of a grid that hold a tile
OccupiedCells(grid) ==
    {c \in (DOMAIN grid) \X (DOMAIN grid) : grid[c[1]][c[2]] # null}

WellFormed(grid, gridSize) ==
    /\ DOMAIN grid = 0 .. gridSize - 1
    /\ \A row \in DOMAIN grid : DOMAIN grid[row] = 0 .. gridSize - 1
    /\ \A c \in OccupiedCells(grid) : grid[c[1]][c[2]].position = Cell(c[1], c[2])
    /\ Cardinality({grid[c[1]][c[2]].id : c \in OccupiedCells(grid)})
          = Cardinality(OccupiedCells(grid))

\* C13: grid well-formedness.  In every state reached through initializeGame,
\* move, undo and continueAfterWin the grid is gridSize x gridSize, no tile is
\* held by two cells, and the position stored in every tile is the cell that
\* holds it; the same holds for the grid of every history entry.
C13_WellFormedGrids ==
    \A grid \in GridsOf(state) : WellFormed(grid, IntOf(state.config.gridSize))

\* two moves were made, the second merged tiles, and two history entries are kept
C13_Witness ==
    /\ res.op = "move"
    /\ res.moved
    /\ Len(res.mergedTiles) > 0
    /\ Len(state.previousStates) = 2
    /\ Cardinality(OccupiedCells(state.grid)) > 2

(***************************************************************************)
(* SpecSpawn: spawnRandomTile applied once to a grid with any cells filled  *)
(* and a spawn table, with sixteen draws of Math.random() for the cell and  *)
(* three for the value.  trail records the two draws.                      *)
(***************************************************************************)
SpawnDraws == {(i * ProbUnit) \div 16 : i \in 0 .. 15}

SpawnValueDraws == CellDraws \cup ValueDraws

\* a spawn table whose probabilities do not sum to 1
SpawnShort == <<[value |-> Num(2), probability |-> 3000],
                [value |-> Num(4), probability |-> 3000]>>

SpawnTables == {SpawnTwo, SpawnTwoFour, SpawnShort}

FilledValues == [Cells(MinGridSize) -> {0, 2}]

InitSpawn ==
    /\ config \in {GameConfigWith(sv, <<1>>) : sv \in SpawnTables}
    /\ \E v \in FilledValues : Restored(restored(config, v, Playing, FALSE))

Spawned(cellDraw, valueDraw, spawn) ==
    /\ res' = [NoRes EXCEPT !.op = "spawnRandomTile", !.grid = spawn.grid]
    /\ tileIdCounter' = spawn.counter
    /\ trail' = <<[cellDraw |-> cellDraw, valueDraw |-> valueDraw]>>
    /\ UNCHANGED <<config, state, made>>

SpawnRandomTile ==
    /\ res.op = "none"
    /\ \E cellDraw \in SpawnDraws, valueDraw \in SpawnValueDraws :
          Spawned(cellDraw, valueDraw,
                  spawnRandomTile(state.grid, config.spawnValues, cellDraw, valueDraw,
                                  tileIdCounter))

NextSpawn == SpawnRandomTile

SpecSpawn == InitSpawn /\ [][NextSpawn]_vars

EmptyCellsOf(grid) == ((DOMAIN grid) \X (DOMAIN grid)) \ OccupiedCells(grid)

ListedValues(spawnValues) == {IntOf(spawnValues[i].value) : i \in DOMAIN spawnValues}

\* grid2 is grid1 with a new tile of a listed value in cell c, which was empty
SpawnedAt(grid1, grid2, c, spawnValues) ==
    /\ grid1[c[1]][c[2]] = null
    /\ grid2[c[1]][c[2]] # null
    /\ grid2[c[1]][c[2]].value \in ListedValues(spawnValues)
    /\ grid2[c[1]][c[2]].position = Cell(c[1], c[2])
    /\ grid2[c[1]][c[2]].id \notin {t.id : t \in TilesOf(grid1)}
    /\ \A d \in (DOMAIN grid1) \X (DOMAIN grid1) :
          d # c => grid2[d[1]][d[2]] = grid1[d[1]][d[2]]

\* C14: spawnRandomTile returns null exactly when the grid has no empty cell;
\* otherwise it returns the input grid with one cell changed, a cell that was
\* empty and now holds a new tile whose value is listed in spawnValues (also
\* when selectSpawnValue falls back); and every empty cell of the input is the
\* cell chosen for some draw.
C14_SpawnRandomTile ==
    /\ res.op = "spawnRandomTile" =>
          /\ res.grid = null <=> EmptyCellsOf(state.grid) = {}
          /\ res.grid # null =>
                \E c \in EmptyCellsOf(state.grid) :
                    SpawnedAt(state.grid, res.grid, c, config.spawnValues)
    /\ \A c \in EmptyCellsOf(state.grid) :
          \E cellDraw \in SpawnDraws :
              spawnRandomTile(state.grid, config.spawnValues, cellDraw, 0, 0)
                  .grid[c[1]][c[2]] # null

\* the draw for the value was above the sum of the probabilities
\* (selectSpawnValue fell back), the last of several empty cells was chosen
C14_Witness ==
    /\ res.op = "spawnRandomTile"
    /\ res.grid # null
    /\ trail[1].valueDraw > totalProbability(config.spawnValues)
    /\ Cardinality(EmptyCellsOf(state.grid)) = 5
    /\ state.grid[2][2] = null
    /\ res.grid[2][2] # null

Without(grid, c) == [grid EXCEPT ![c[1]][c[2]] = null]

\* grid2 is grid1 slid and merged in the direction, plus one spawned tile
SlidPlusOne(grid1, grid2, direction, spawnValues) ==
    \E c \in OccupiedCells(grid2) :
        /\ grid2[c[1]][c[2]].mergedFrom = <<>>
        /\ grid2[c[1]][c[2]].id \notin {t.id : t \in TilesOf(grid1)}
        /\ grid2[c[1]][c[2]].value \in ListedValues(spawnValues)
        /\ \A k \in DOMAIN grid1 :
              LineFromEdge(Without(grid2, c), direction, k)
                  = PackedLine(LineFromEdge(grid1, direction, k))

\* C15: a committed move (moved = true) returns a new state whose grid is the
\* slid and merged grid plus exactly one spawned tile (tiles after = tiles
\* before - merges + 1), whose score is the previous score plus the reported
\* gain, the gain being the sum of the values of mergedTiles, and whose
\* moveCount is the previous moveCount + 1.
C15_CommittedMove ==
    [][(res'.op = "move" /\ res'.moved) =>
          /\ ~res'.same
          /\ SlidPlusOne(state.grid, state'.grid, res'.direction, config.spawnValues)
          /\ Cardinality(OccupiedCells(state'.grid))
                = Cardinality(OccupiedCells(state.grid)) - Len(res'.mergedTiles) + 1
          /\ state'.score = state.score + res'.score
          /\ res'.score = SumValues(res'.mergedTiles)
          /\ state'.moveCount = state.moveCount + 1]_vars

\* the second move of a game merged two of its three tiles: three tiles are on
\* the grid again and the score is the value of the merged tile
C15_Witness ==
    /\ res.op = "move"
    /\ res.moved
    /\ Len(res.mergedTiles) = 1
    /\ state.moveCount = 2
    /\ state.score = res.mergedTiles[1].value
    /\ Cardinality(OccupiedCells(state.previousStates[1].grid)) = 3
    /\ Cardinality(OccupiedCells(state.grid)) = 3

(***************************************************************************)
(* SpecStatus: determineGameStatus applied once to any 3 x 3 grid of tiles  *)
(* 2 and 4, with target 4 or 8 and any current status (state.status)       *)
(***************************************************************************)
AnyValues == [Cells(MinGridSize) -> {0, 2, 4}]

InitStatus ==
    /\ config \in {SavedConfig(4), SavedConfig(8)}
    /\ \E v \in AnyValues, currentStatus \in GameStatus :
          Restored(restored(config, v, currentStatus, FALSE))

DetermineGameStatus ==
    /\ res.op = "none"
    /\ res' = [NoRes EXCEPT !.op = "determineGameStatus",
                            !.status = determineGameStatus(state.grid, config.targetValue,
                                                           state.status)]
    /\ UNCHANGED <<config, state, tileIdCounter, trail, made>>

NextStatus == DetermineGameStatus

SpecStatus == InitStatus /\ [][NextStatus]_vars

\* two cells are orthogonal neighbours
Adjacent(c, d) ==
    \/ c[1] = d[1] /\ (c[2] - d[2] = 1 \/ d[2] - c[2] = 1)
    \/ c[2] = d[2] /\ (c[1] - d[1] = 1 \/ d[1] - c[1] = 1)

NoEqualNeighbours(grid) ==
    \A c, d \in OccupiedCells(grid) :
        Adjacent(c, d) => grid[c[1]][c[2]].value # grid[d[1]][d[2]].value

SomeTileAtLeast(grid, target) == \E t \in TilesOf(grid) : t.value >= target

\* C16: determineGameStatus(grid, target, current) returns Won when current is
\* Won or some tile has a value >= target; otherwise Lost exactly when the grid
\* has no empty cell and no two orthogonal neighbours of equal value; otherwise
\* Playing.  Won goes before Lost.
C16_DetermineGameStatus ==
    res.op = "determineGameStatus" =>
        res.status =
            IF state.status = Won \/ SomeTileAtLeast(state.grid, IntOf(config.targetValue))
            THEN Won
            ELSE IF EmptyCellsOf(state.grid) = {} /\ NoEqualNeighbours(state.grid)
                 THEN Lost
                 ELSE Playing

\* a full grid with no equal neighbours that holds a tile >= target, in a game
\* that was Playing, evaluates to Won
C16_Witness ==
    /\ res.op = "determineGameStatus"
    /\ res.status = Won
    /\ state.status = Playing
    /\ EmptyCellsOf(state.grid) = {}
    /\ NoEqualNeighbours(state.grid)

(***************************************************************************)
(* SpecLoad: deserializeGameState applied to a persisted blob, and undo    *)
(* applied to the state it returned.  A blob is the text handed to         *)
(* JSON.parse, described by what JSON.parse makes of it: whether it parses, *)
(* whether the value is null or an object, and for each field of the       *)
(* object its kind ("absent" when the object has no such field) and, where *)
(* the kind is the expected one, its value.  trail holds the blob.         *)
(***************************************************************************)
ErrParse == "SyntaxError"
ErrNullState == "TypeError"
ErrMissingGrid == "Invalid game state: missing or invalid grid"
ErrInvalidScore == "Invalid game state: missing or invalid score"
ErrMissingConfig == "Invalid game state: missing config"
ErrInvalidConfig == "Invalid game state config"

\* throw new Error(`Failed to deserialize game state: ${message}`)
rejected(messages) == [threw |-> "deserialize", errors |-> messages, state |-> noState]

\* the end of deserializeGameState, errors being what validateGameConfig returned
validated(parsed, errors) ==
    IF Len(errors) > 0 THEN rejected(<<ErrInvalidConfig>> \o errors)
    ELSE [threw |-> "none", errors |-> <<>>, state |-> parsed]

\* deserializeGameState that looks at the config before the score
deserializeGameStateConfigFirst(blob) ==
    IF ~blob.parseable THEN rejected(<<ErrParse>>)
    ELSE IF blob.root = "null" THEN rejected(<<ErrNullState>>)
    ELSE IF blob.gridKind # "array" THEN rejected(<<ErrMissingGrid>>)
    ELSE IF blob.configKind = "absent" THEN rejected(<<ErrMissingConfig>>)
    ELSE IF Len(validateGameConfig(blob.config)) > 0
         THEN rejected(<<ErrInvalidConfig>> \o validateGameConfig(blob.config))
    ELSE IF blob.scoreKind # "number" THEN rejected(<<ErrInvalidScore>>)
    ELSE [threw |-> "none", errors |-> <<>>, state |-> blob]

deserializeGameState(blob) ==
    IF ~blob.parseable THEN rejected(<<ErrParse>>)
    ELSE IF blob.root = "null" THEN rejected(<<ErrNullState>>)
    ELSE IF blob.gridKind # "array" THEN rejected(<<ErrMissingGrid>>)
    ELSE IF blob.scoreKind # "number" THEN rejected(<<ErrInvalidScore>>)
    ELSE IF blob.configKind = "absent" THEN rejected(<<ErrMissingConfig>>)
    ELSE validated(blob, validateGameConfig(blob.config))

\* undo of a state returned by deserializeGameState, whose history is empty
\* when it has one: state.previousStates.length of an absent list throws
undoLoaded(s) ==
    IF s.previousStatesKind = "absent" THEN [threw |-> "type", same |-> FALSE]
    ELSE [threw |-> "none", same |-> TRUE]

BlobConfigs ==
    {SavedConfig(4), [SavedConfig(4) EXCEPT !.gridSize = Num(2)], SavedConfig(100)}

BlobGrids ==
    {GridOf([c \in Cells(n) |-> IF c[1] = c[2] THEN 2 ELSE 0], n) :
        n \in {MinGridSize - 1, MinGridSize}}

Blobs ==
    [parseable : BOOLEAN, root : {"null", "object"},
     gridKind : {"absent", "string", "array"}, grid : BlobGrids,
     scoreKind : {"absent", "string", "number"}, score : {0},
     configKind : {"absent", "object"}, config : BlobConfigs,
     previousStatesKind : {"absent", "array"}, previousStates : {<<>>},
     moveCountKind : {"absent", "number"}, moveCount : {0},
     status : GameStatus \cup {"PAUSED"}]

InitLoad ==
    /\ trail \in {<<blob>> : blob \in Blobs}
    /\ config = trail[1].config
    /\ state = noState
    /\ tileIdCounter = 0
    /\ res = NoRes
    /\ made = 0

Deserialized(d) ==
    /\ res' = [NoRes EXCEPT !.op = "deserializeGameState", !.threw = d.threw,
                            !.errors = d.errors]
    /\ state' = d.state
    /\ UNCHANGED <<config, tileIdCounter, trail, made>>

DeserializeGameState ==
    /\ res.op = "none"
    /\ Deserialized(deserializeGameState(trail[1]))

UndoneLoaded(u) ==
    /\ res' = [NoRes EXCEPT !.op = "undo", !.threw = u.threw, !.same = u.same]
    /\ UNCHANGED <<config, state, tileIdCounter, trail, made>>

UndoLoaded ==
    /\ state # noState
    /\ UndoneLoaded(undoLoaded(state))

NextLoad ==
    \/ DeserializeGameState
    \/ UndoLoaded

SpecLoad == InitLoad /\ [][NextLoad]_vars

\* the check of deserializeGameState that the blob fails
FailsCheck(blob, check) ==
    CASE check = "parse"    -> ~blob.parseable
      [] check = "grid"     -> blob.root = "null" \/ blob.gridKind # "array"
      [] check = "score"    -> blob.root = "null" \/ blob.scoreKind # "number"
      [] check = "config"   -> blob.root = "null" \/ blob.configKind = "absent"
      [] check = "validate" -> /\ blob.root = "object"
                               /\ blob.configKind = "object"
                               /\ validateGameConfig(blob.config) # <<>>

\* the checks the blob fails, in the order in which they are made
FailedChecks(blob) ==
    SelectSeq(<<"parse", "grid", "score", "config", "validate">>,
              LAMBDA check : FailsCheck(blob, check))

\* the messages that name a check (a null value fails the grid check by the
\* TypeError of reading its grid)
NamedBy(check) ==
    CASE check = "parse"    -> {ErrParse}
      [] check = "grid"     -> {ErrMissingGrid, ErrNullState}
      [] check = "score"    -> {ErrInvalidScore}
      [] check = "config"   -> {ErrMissingConfig}
      [] check = "validate" -> {ErrInvalidConfig}

\* C17: deserializeGameState returns no state and raises a deserialization
\* error when the input does not parse, lacks an array-valued grid, has a
\* score that is no number, lacks a config, or has a config for which
\* validateGameConfig reports a violation; the error names the first of these
\* checks, in that order, that fails.  In every other case it returns the
\* parsed state as it is, every field as parsed.
C17_Deserialize ==
    res.op = "deserializeGameState" =>
        IF FailedChecks(trail[1]) = <<>>
        THEN res.threw = "none" /\ state = trail[1]
        ELSE /\ res.threw = "deserialize"
             /\ state = noState
             /\ res.errors[1] \in NamedBy(FailedChecks(trail[1])[1])
             /\ FailedChecks(trail[1])[1] = "validate"
                   => Tail(res.errors) = validateGameConfig(trail[1].config)

\* a blob with a score that is no number and an invalid config was rejected
\* for its score
C17_Witness ==
    /\ res.op = "deserializeGameState"
    /\ res.threw = "deserialize"
    /\ res.errors = <<ErrInvalidScore>>
    /\ FailedChecks(trail[1]) = <<"score", "validate">>

\* C18: a persisted blob that is structurally invalid as a GameState (a grid
\* whose dimensions differ from config.gridSize, a missing previousStates
\* list, a missing moveCount, a status outside Playing/Won/Lost) is rejected
\* by deserializeGameState, and no state it accepts makes a later undo fail.
C18_InvalidRejected ==
    /\ (/\ res.op = "deserializeGameState"
        /\ \/ trail[1].previousStatesKind = "absent"
           \/ trail[1].moveCountKind = "absent"
           \/ trail[1].status \notin GameStatus
           \/ gridLength(trail[1].grid) # IntOf(trail[1].config.gridSize))
       => res.threw = "deserialize"
    /\ res.op = "undo" => res.threw = "none"

(***************************************************************************)
(* SpecConfig: the App component and its useGame hook while the            *)
(* configuration is changed.  trail holds the React state around the game: *)
(* gameConfig (App), config and previousConfigRef (useGame); the variable  *)
(* config is the configuration the hook returns.                           *)
(***************************************************************************)
undefined == [undefined |-> TRUE]

convertToGameLogicConfig(c) ==
    [gridSize |-> Num(c.size), targetValue |-> Num(c.target),
     spawnValues |-> c.spawn, maxUndoStates |-> <<DefaultMaxUndoStates>>]

\* the argument of the call of useGame in App
externalConfig(gameConfig) == undefined

\* the effect on [externalConfig]
configAfterRender(hookConfig, external) ==
    IF external # undefined THEN external ELSE hookConfig

\* the condition of the effect on [config]
configChanged(hookConfig, prevConfig) ==
    hookConfig.size # prevConfig.size \/ hookConfig.target # prevConfig.target

\* configurations of the settings panel and of the URL hash
UIConfigs ==
    {[size |-> n, target |-> t, spawn |-> SpawnTwo] :
        n \in {MinGridSize, MinGridSize + 1}, t \in {4, 8}}

\* mount: App and useGame both read the configuration of the hash; no saved game
InitConfig ==
    /\ \E c \in UIConfigs :
          /\ trail = [gameConfig |-> c, config |-> c,
                      previousConfig |-> [size |-> c.size, target |-> c.target]]
          /\ config = convertToGameLogicConfig(c)
    /\ \E g \in FreshGames(config, 0) :
          /\ state = g.state
          /\ tileIdCounter = g.counter
    /\ res = [NoRes EXCEPT !.op = "initializeGame"]
    /\ made = 0

\* the render after setGameConfig(newConfig) with the effects of useGame: the
\* game is restarted with g when the hook's config changed in size or target
Rendered(op, newConfig, hookConfig, g) ==
    /\ trail' = [gameConfig |-> newConfig, config |-> hookConfig,
                 previousConfig |->
                    IF configChanged(hookConfig, trail.previousConfig)
                    THEN [size |-> hookConfig.size, target |-> hookConfig.target]
                    ELSE trail.previousConfig]
    /\ config' = convertToGameLogicConfig(hookConfig)
    /\ state' = IF configChanged(hookConfig, trail.previousConfig) THEN g.state ELSE state
    /\ tileIdCounter' =
          IF configChanged(hookConfig, trail.previousConfig) THEN g.counter
          ELSE tileIdCounter
    /\ res' = [NoRes EXCEPT !.op = op, !.same = (state' = state)]
    /\ UNCHANGED made

\* the games initializeGame can return when the effect on [config] runs it
Restarts(hookConfig) ==
    IF configChanged(hookConfig, trail.previousConfig)
    THEN FreshGames(convertToGameLogicConfig(hookConfig), tileIdCounter)
    ELSE {failed("none", <<>>, tileIdCounter)}

SetGameConfig(op, newConfig) ==
    \E g \in Restarts(configAfterRender(trail.config, externalConfig(newConfig))) :
        Rendered(op, newConfig,
                 configAfterRender(trail.config, externalConfig(newConfig)), g)

\* Settings' Apply
HandleConfigChange ==
    \E newConfig \in UIConfigs : SetGameConfig("handleConfigChange", newConfig)

\* the hashchange listener: newConfig is parseConfigFromHash()
HandleHashChange ==
    \E newConfig \in UIConfigs : SetGameConfig("handleHashChange", newConfig)

UseGameMoved(direction, m) ==
    /\ state' = m.newState
    /\ tileIdCounter' = m.counter
    /\ res' = [NoRes EXCEPT !.op = "move", !.direction = direction, !.moved = m.moved,
                            !.score = m.score, !.mergedTiles = m.mergedTiles,
                            !.same = m.same]
    /\ made' = IF m.moved THEN made + 1 ELSE made
    /\ UNCHANGED <<config, trail>>

UseGameMoveDraws(direction, pm) ==
    /\ pm.moved => made < MaxMoves
    /\ \E cellDraw \in (IF pm.moved THEN CellDraws ELSE {0}),
          valueDraw \in (IF pm.moved THEN ValueDraws ELSE {0}) :
          UseGameMoved(direction, moveAfter(state, pm, cellDraw, valueDraw))

\* the hook's move
UseGameMove(direction) ==
    UseGameMoveDraws(direction,
                     IF state.status = Lost
                     THEN notPerformed(state, tileIdCounter)
                     ELSE performMove(state.grid, direction, tileIdCounter))

NextConfig ==
    \/ HandleConfigChange
    \/ HandleHashChange
    \/ \E direction \in Direction : UseGameMove(direction)

SpecConfig == InitConfig /\ [][NextConfig]_vars

\* C19: when a configuration is applied (settings panel or hash change) whose
\* grid size or target value differs from that of the running game, the game
\* is replaced by a freshly initialised game with the new configuration: the
\* game on screen never has a grid size or target other than those of the
\* applied configuration, and a game replaced on applying is a fresh one.
C19_ConfigChangeRestarts ==
    /\ state.config.gridSize = Num(trail.gameConfig.size)
    /\ state.config.targetValue = Num(trail.gameConfig.target)
    /\ gridLength(state.grid) = trail.gameConfig.size
    /\ (res.op \in {"handleConfigChange", "handleHashChange"} /\ ~res.same)
          => /\ state.score = 0
             /\ state.moveCount = 0
             /\ state.previousStates = <<>>
             /\ state.status = Playing

\* C20: continueAfterWin applied to a state with status Won returns a state
\* with status Playing and wonAndContinued true whose grid, score, moveCount,
\* previousStates and config are those of the input, and with no other field.
C20_ContinueFrame ==
    [][(state # noState /\ state.status = Won /\ res'.op = "continueAfterWin")
          => /\ state'.status = Playing
             /\ state'.wonAndContinued = TRUE
             /\ state'.grid = state.grid
             /\ state'.score = state.score
             /\ state'.moveCount = state.moveCount
             /\ state'.previousStates = state.previousStates
             /\ state'.config = state.config
             /\ DOMAIN state' = DOMAIN state]_vars

\* a won game with a score and an undo history was continued
C20_Witness ==
    /\ res.op = "continueAfterWin"
    /\ ~res.same
    /\ state.status = Playing
    /\ state.wonAndContinued
    /\ state.score > 0
    /\ Len(state.previousStates) > 0

(***************************************************************************)
(* Further properties of performMove (SpecPerformMove)                     *)
(***************************************************************************)
\* the line along the direction that a position lies on
LineOf(position, direction) ==
    IF direction \in {Left, Right} THEN position.row ELSE position.col

\* how many cells lie between a position and the edge the tiles move to
DepthOf(position, direction, n) ==
    CASE direction = Left  -> position.col
      [] direction = Right -> n - 1 - position.col
      [] direction = Up    -> position.row
      [] direction = Down  -> n - 1 - position.row

\* the tile of the grid with the id
TileWithId(grid, id) == CHOOSE u \in TilesOf(grid) : u.id = id

\* C22: in the grid returned by performMove every line along the direction is
\* packed against the target edge (no empty cell between a tile and that
\* edge), every tile lies on the line its input tiles lay on, and the tiles
\* that survive keep the order they had in their input line.
C22_PackedInOrder ==
    res.op = "performMove" =>
        /\ \A k \in DOMAIN res.grid :
              \A j \in 1 .. gridLength(res.grid) - 1 :
                  LineFromEdge(res.grid, res.direction, k)[j] = 0
                      => LineFromEdge(res.grid, res.direction, k)[j + 1] = 0
        /\ \A t \in TilesOf(res.grid) :
              \A id \in MadeOf(t) :
                  LineOf(TileWithId(state.grid, id).position, res.direction)
                      = LineOf(t.position, res.direction)
        /\ \A t1, t2 \in TilesOf(res.grid) :
              (/\ IsInputTile(t1, state.grid)
               /\ IsInputTile(t2, state.grid)
               /\ LineOf(t1.position, res.direction) = LineOf(t2.position, res.direction)
               /\ DepthOf(TileWithId(state.grid, t1.id).position, res.direction,
                          gridLength(state.grid))
                    < DepthOf(TileWithId(state.grid, t2.id).position, res.direction,
                              gridLength(state.grid)))
                  => DepthOf(t1.position, res.direction, gridLength(res.grid))
                       < DepthOf(t2.position, res.direction, gridLength(res.grid))

\* a row 2,4,empty moved right has become empty,2,4
C22_Witness ==
    /\ res.op = "performMove"
    /\ res.direction = Right
    /\ LineFromEdge(state.grid, Right, 0) = <<0, 4, 2>>
    /\ LineFromEdge(res.grid, Right, 0) = <<4, 2, 0>>

\* the tile of the output grid that the input tile u has become or gone into
OutputOf(grid, u) == CHOOSE t \in TilesOf(grid) : u.id \in MadeOf(t)

\* C23: performMove reports moved exactly when some tile ends in a cell other
\* than the one it started in (by sliding or by merging into another cell),
\* which is exactly when the values of the output grid are laid out otherwise
\* than those of the input grid; when it reports moved = false the output has
\* the input's values in the input's cells, the score is 0 and nothing merged.
C23_MovedIffChanged ==
    res.op = "performMove" =>
        /\ res.moved <=> \E u \in TilesOf(state.grid) :
                            OutputOf(res.grid, u).position # u.position
        /\ res.moved <=> Values(res.grid) # Values(state.grid)
        /\ ~res.moved => /\ Values(res.grid) = Values(state.grid)
                         /\ res.score = 0
                         /\ res.mergedTiles = <<>>

\* a row 2,2,empty moved left: the only tile to change cell merged into its
\* neighbour, and the move is reported as moved
C23_Witness ==
    /\ res.op = "performMove"
    /\ res.direction = Left
    /\ res.moved
    /\ LineFromEdge(state.grid, Left, 0) = <<2, 2, 0>>
    /\ LineFromEdge(res.grid, Left, 0) = <<4, 0, 0>>
    /\ TileCount([c \in Cells(gridLength(state.grid)) |->
                     Values(state.grid)[c[1]][c[2]]]) = 2

(***************************************************************************)
(* Further properties of the controller (Spec)                             *)
(***************************************************************************)
\* C24: mergedFrom describes the current turn only.  In the grid of the state
\* returned by a committed move a tile carries mergedFrom exactly when it was
\* created by a merge of that move, and then it names two tiles of half its
\* value at the positions they had before the move; a tile merged in an
\* earlier turn that slides or stays in this one carries no mergedFrom.
C24_MergedFromThisTurn ==
    (res.op = "move" /\ res.moved) =>
        \A t \in TilesOf(state.grid) :
            IF \E i \in DOMAIN res.mergedTiles : res.mergedTiles[i].id = t.id
            THEN /\ Len(t.mergedFrom) = 2
                 /\ \A i \in 1 .. 2 :
                       /\ 2 * t.mergedFrom[i].value = t.value
                       /\ \E u \in TilesOf(state.previousStates[1].grid) :
                             /\ u.id = t.mergedFrom[i].id
                             /\ u.position = t.mergedFrom[i].position
            ELSE t.mergedFrom = <<>>

(***************************************************************************)
(* SpecAvail: performMove in each of the four directions, then             *)
(* hasMovesAvailable, applied to one grid over empty, 2 and 4.  trail      *)
(* lists the calls made and what each returned.                            *)
(***************************************************************************)
DirectionOrder == <<Up, Down, Left, Right>>

InitAvail ==
    /\ config = SavedConfig(4)
    /\ \E v \in AnyValues : state = restored(config, v, Playing, FALSE)
    /\ tileIdCounter = MinGridSize * MinGridSize
    /\ res = NoRes
    /\ trail = <<>>
    /\ made = 0

TriedMove(direction, pm) ==
    /\ res' = [NoRes EXCEPT !.op = "performMove", !.direction = direction,
                            !.grid = pm.grid, !.moved = pm.moved, !.score = pm.score,
                            !.mergedTiles = pm.mergedTiles]
    /\ trail' = Append(trail, [op |-> "performMove", direction |-> direction,
                               result |-> pm.moved])
    /\ UNCHANGED <<config, state, tileIdCounter, made>>

TryMove(direction) ==
    /\ Len(trail) < Len(DirectionOrder)
    /\ direction = DirectionOrder[Len(trail) + 1]
    /\ TriedMove(direction, performMove(state.grid, direction, tileIdCounter))

HasMovesAvailable ==
    /\ Len(trail) = Len(DirectionOrder)
    /\ res' = [NoRes EXCEPT !.op = "hasMovesAvailable"]
    /\ trail' = Append(trail, [op |-> "hasMovesAvailable", direction |-> "",
                               result |-> hasMovesAvailable(state.grid)])
    /\ UNCHANGED <<config, state, tileIdCounter, made>>

NextAvail ==
    \/ \E direction \in Direction : TryMove(direction)
    \/ HasMovesAvailable

SpecAvail == InitAvail /\ [][NextAvail]_vars

\* C25: loss detection agrees with the move engine.  For every grid holding at
\* least one tile, hasMovesAvailable returns true exactly when performMove
\* reports moved = true for at least one of the four directions.
C25_LossAgreesWithMoves ==
    (res.op = "hasMovesAvailable" /\ TilesOf(state.grid) # {}) =>
        (trail[Len(trail)].result
            <=> \E i \in 1 .. Len(DirectionOrder) : trail[i].result)

\* a full grid on which no direction moved a tile and hasMovesAvailable
\* returned false
C25_Witness ==
    /\ res.op = "hasMovesAvailable"
    /\ Cardinality(TilesOf(state.grid)) = MinGridSize * MinGridSize
    /\ ~trail[Len(trail)].result
    /\ \A i \in 1 .. Len(DirectionOrder) : ~trail[i].result

(***************************************************************************)
(* Conservation in performMove (SpecPerformMove)                           *)
(***************************************************************************)
\* the total of the values in the cells 1 .. i (row-major) of a grid
RECURSIVE TotalUpTo(_, _)
TotalUpTo(grid, i) ==
    IF i = 0 THEN 0
    ELSE Values(grid)[RowMajor(grid)[i].row][RowMajor(grid)[i].col] + TotalUpTo(grid, i - 1)

TotalOf(grid) == TotalUpTo(grid, gridLength(grid) * gridLength(grid))

\* C26: performMove conserves the total of the tile values.  The values of the
\* output grid add up to what those of the input grid add up to, the output
\* has as many tiles as the input less the number of tiles in mergedTiles, and
\* the returned score is the sum of the values of the tiles in mergedTiles.
C26_TotalConserved ==
    res.op = "performMove" =>
        /\ TotalOf(res.grid) = TotalOf(state.grid)
        /\ Cardinality(TilesOf(res.grid))
              = Cardinality(TilesOf(state.grid)) - Len(res.mergedTiles)
        /\ res.score = SumValues(res.mergedTiles)

\* four tiles of which two 4s merged: three tiles left, score 8, total kept
C26_Witness ==
    /\ res.op = "performMove"
    /\ Cardinality(TilesOf(state.grid)) = 4
    /\ Cardinality(TilesOf(res.grid)) = 3
    /\ Len(res.mergedTiles) = 1
    /\ res.score = 8
    /\ TotalOf(res.grid) = TotalOf(state.grid)

(***************************************************************************)
(* Moves of late games (SpecSaved)                                         *)
(***************************************************************************)
\* what performMove returns for the move that the step makes
MovedGrid == performMove(state.grid, res'.direction, tileIdCounter)

\* C27: the spawn-failure branch of move is not reached.  Whenever performMove
\* reports moved = true, its output grid has an empty cell, and the move is
\* committed: it is reported as moved, a tile is spawned on the moved grid,
\* the state before the move is pushed onto the history and moveCount grows
\* by one.
C27_MovedIsCommitted ==
    [][(res'.op = "move" /\ state.status # Lost /\ MovedGrid.moved)
          => /\ Len(getEmptyCells(MovedGrid.grid)) > 0
             /\ res'.moved
             /\ ~res'.same
             /\ Cardinality(TilesOf(state'.grid))
                   = Cardinality(TilesOf(MovedGrid.grid)) + 1
             /\ Len(state'.previousStates) > 0
             /\ Values(state'.previousStates[1].grid) = Values(state.grid)
             /\ state'.moveCount = state.moveCount + 1]_vars

\* a move on a full board merged one pair, and the spawned tile filled the
\* only empty cell
C27_Witness ==
    /\ res.op = "move"
    /\ res.moved
    /\ Len(res.mergedTiles) = 1
    /\ Len(state.previousStates) > 0
    /\ Len(getEmptyCells(state.previousStates[1].grid)) = 0
    /\ Len(getEmptyCells(state.grid)) = 0

(***************************************************************************)
(* The history of a game played from initializeGame (Spec)                 *)
(***************************************************************************)
\* C28: the history is ordered newest first and agrees with the move counter.
\* Counting entries from 0, previousStates[i].moveCount = moveCount - 1 - i
\* (here entries are counted from 1), so the history is no longer than
\* moveCount, and every entry has an empty previousStates of its own.
C28_HistoryOrdered ==
    /\ \A i \in DOMAIN state.previousStates :
          /\ state.previousStates[i].moveCount = state.moveCount - i
          /\ state.previousStates[i].previousStates = <<>>
    /\ Len(state.previousStates) <= state.moveCount

\* after two moves and an undo the history holds the fresh game alone
C28_Witness ==
    /\ res.op = "undo"
    /\ ~res.same
    /\ made = 2
    /\ state.moveCount = 1
    /\ Len(state.previousStates) = 1
    /\ state.previousStates[1].moveCount = 0

(***************************************************************************)
(* Late games won and continued (SpecSaved)                                *)
(***************************************************************************)
\* C29: no stuck game.  In every state whose status is Playing at least one
\* of the four directions yields a move with moved = true; a board that is
\* full and has no two equal neighbours never has status Playing.
C29_NoStuckGame ==
    state.status = Playing =>
        /\ \E direction \in Direction :
              performMove(state.grid, direction, tileIdCounter).moved
        /\ ~(getEmptyCells(state.grid) = <<>> /\ NoEqualNeighbours(state.grid))

(***************************************************************************)
(* SpecStats: the App component with useGame and useGameStats while a late *)
(* game (a full board, target 8, status Playing) loaded at mount is played *)
(* to its end.  trail holds what surrounds the game: the statistics in     *)
(* storage, previousStatusRef of useGame, and, as history, how many times  *)
(* the status went from Playing to Won or Lost.                            *)
(***************************************************************************)
MaxEvents == 1

DefaultStats == [totalGames |-> 0, wins |-> 0, losses |-> 0]

updateStatsAfterGame(stats, isWin) ==
    [totalGames |-> stats.totalGames + 1,
     wins |-> IF isWin THEN stats.wins + 1 ELSE stats.wins,
     losses |-> IF isWin THEN stats.losses ELSE stats.losses + 1]

\* useGame's effect on [gameState.status, gameState]
statusEffect(previousStatus, s, stats) ==
    IF previousStatus = Playing /\ (s.status = Won \/ s.status = Lost)
    THEN updateStatsAfterGame(stats, s.status = Won)
    ELSE stats

\* App's effect on [status, score, moveCount]; old is the state of the render
\* before
recordEffect(old, s, stats) ==
    IF /\ (old.status # s.status \/ old.score # s.score \/ old.moveCount # s.moveCount)
       /\ (s.status = Won \/ s.status = Lost)
    THEN updateStatsAfterGame(stats, s.status = Won)
    ELSE stats

\* the hook's continueGame
continueGame(currentState) ==
    IF currentState.status # Won THEN currentState
    ELSE [currentState EXCEPT !.status = Playing]

InitStats ==
    /\ \E s \in SavedGames(8) : s.status = Playing /\ state = s
    /\ config = state.config
    /\ tileIdCounter = MinGridSize * MinGridSize
    /\ res = NoRes
    /\ trail = [stats |-> DefaultStats, previousStatus |-> state.status, finished |-> 0]
    /\ made = 0

\* setGameState(newState) and the effects of the render that follows
SetGameState(op, newState, counter, event) ==
    /\ state' = newState
    /\ tileIdCounter' = counter
    /\ res' = [NoRes EXCEPT !.op = op, !.same = (newState = state)]
    /\ trail' = [stats |-> recordEffect(state, newState,
                                        statusEffect(trail.previousStatus, newState,
                                                     trail.stats)),
                 previousStatus |-> newState.status,
                 finished |-> IF state.status = Playing
                                 /\ (newState.status = Won \/ newState.status = Lost)
                              THEN trail.finished + 1 ELSE trail.finished]
    /\ made' = made + event
    /\ UNCHANGED config

MovedGame(m) == SetGameState("move", m.newState, m.counter, IF m.moved THEN 1 ELSE 0)

HandleMoveDraws(pm) ==
    /\ pm.moved => made < MaxEvents
    /\ \E cellDraw \in (IF pm.moved THEN CellDraws ELSE {0}),
          valueDraw \in (IF pm.moved THEN ValueDraws ELSE {0}) :
          MovedGame(moveAfter(state, pm, cellDraw, valueDraw))

\* App's handleMove: keys and swipes move the game unless it is lost
HandleMove(direction) ==
    /\ state.status # Lost
    /\ HandleMoveDraws(performMove(state.grid, direction, tileIdCounter))

\* the Undo button
UndoGame == SetGameState("undo", undo(state).state, tileIdCounter, 0)

\* the New Game button: resetGame(currentState)
NewGame ==
    /\ made < MaxEvents
    /\ \E g \in FreshGames(state.config, tileIdCounter) :
          SetGameState("newGame", g.state, g.counter, 1)

\* the Continue button of the win dialog
ContinueGame == SetGameState("continueGame", continueGame(state), tileIdCounter, 0)

NextStats ==
    \/ \E direction \in Direction : HandleMove(direction)
    \/ UndoGame
    \/ NewGame
    \/ ContinueGame

SpecStats == InitStats /\ [][NextStats]_vars

\* C30: each finished game is counted once in the statistics.  totalGames has
\* grown by one for each time the game ended (its status became Won or Lost),
\* whatever moves, undos, continues, new games and renders there were, and
\* totalGames = wins + losses.
C30_CountedOnce ==
    /\ trail.stats.totalGames = trail.finished
    /\ trail.stats.totalGames = trail.stats.wins + trail.stats.losses

(***************************************************************************)
(* SpecCopies: the objects behind the grids of a game played from          *)
(* initializeGame.  Next to the game, trail keeps for the live grid, for   *)
(* the grid of each history entry and for the grid of the state before the *)
(* last move which object each part is: an object is named by the call     *)
(* that created it (gen), its kind and its place, and a part that a call   *)
(* copies by reference keeps the name it had.  A tile is [at, position,    *)
(* mergedFrom, entries]: the tile object, its position object, its         *)
(* mergedFrom array (noRef when absent) and, for each entry of the array,  *)
(* the entry object, its position object and its own mergedFrom array.     *)
(***************************************************************************)
noRef == <<>>

Addr(gen, kind, row, col, i) == <<gen, kind, row, col, i>>

refEmptyGrid(gen, size) ==
    [at |-> Addr(gen, "grid", 0, 0, 0),
     rows |-> [row \in 0 .. size - 1 |-> Addr(gen, "row", row, 0, 0)],
     tiles |-> createEmptyGrid(size)]

\* createTile(cell, value): the cell is an object made by the caller
refCreateTile(gen, row, col) ==
    [at |-> Addr(gen, "tile", row, col, 0), position |-> Addr(gen, "position", row, col, 0),
     mergedFrom |-> noRef, entries |-> <<>>]

\* { ...tile, position: { ...tile.position }, mergedFrom: tile.mergedFrom?.map(t => ({ ...t })) }
refCloneTile(gen, row, col, t) ==
    [at |-> Addr(gen, "tile", row, col, 0), position |-> Addr(gen, "position", row, col, 0),
     mergedFrom |-> IF t.mergedFrom = noRef THEN noRef
                    ELSE Addr(gen, "mergedFrom", row, col, 0),
     entries |-> [i \in DOMAIN t.entries |->
                     [at |-> Addr(gen, "entry", row, col, i),
                      position |-> t.entries[i].position,
                      mergedFrom |-> t.entries[i].mergedFrom]]]

refCloneGrid(gen, g) ==
    [at |-> Addr(gen, "grid", 0, 0, 0),
     rows |-> [row \in DOMAIN g.rows |-> Addr(gen, "row", row, 0, 0)],
     tiles |-> [row \in DOMAIN g.tiles |->
                   [col \in DOMAIN g.tiles[row] |->
                       IF g.tiles[row][col] = null THEN null
                       ELSE refCloneTile(gen, row, col, g.tiles[row][col])]]]

\* spawnRandomTile that turned a grid with the objects g into the grid spawned
refSpawnRandomTile(gen, g, spawned) ==
    [refCloneGrid(gen, g) EXCEPT !.tiles =
        [row \in DOMAIN g.tiles |->
            [col \in DOMAIN g.tiles[row] |->
                IF g.tiles[row][col] = null /\ spawned[row][col] # null
                THEN refCreateTile(gen, row, col)
                ELSE @[row][col]]]]

\* the objects of the input tile with the id
refInputTile(g, grid, id) ==
    g.tiles[TileWithId(grid, id).position.row][TileWithId(grid, id).position.col]

\* the objects of the tile t that performMove placed at (row, col): a tile of
\* the input grid is placed as { ...tile, position: newPosition }; a merged
\* tile is created with mergedFrom [{ ...tile, position: { ...tile.position } },
\* { ...nextTile, position: { ...nextTile.position } }]
refPlacedTile(gen, row, col, t, g, grid) ==
    IF \E u \in TilesOf(grid) : u.id = t.id
    THEN [at |-> Addr(gen, "tile", row, col, 0),
          position |-> Addr(gen, "position", row, col, 0),
          mergedFrom |-> refInputTile(g, grid, t.id).mergedFrom,
          entries |-> refInputTile(g, grid, t.id).entries]
    ELSE [at |-> Addr(gen, "tile", row, col, 0),
          position |-> Addr(gen, "position", row, col, 0),
          mergedFrom |-> Addr(gen, "mergedFrom", row, col, 0),
          entries |-> [i \in DOMAIN t.mergedFrom |->
                          [at |-> Addr(gen, "entry", row, col, i),
                           position |-> Addr(gen, "entryPosition", row, col, i),
                           mergedFrom |-> refInputTile(g, grid, t.mergedFrom[i].id).mergedFrom]]]

\* performMove that turned the grid with the objects g into moved
refPerformMove(gen, g, grid, moved) ==
    [at |-> Addr(gen, "grid", 0, 0, 0),
     rows |-> [row \in DOMAIN g.rows |-> Addr(gen, "row", row, 0, 0)],
     tiles |-> [row \in DOMAIN moved |->
                   [col \in DOMAIN moved[row] |->
                       IF moved[row][col] = null THEN null
                       ELSE refPlacedTile(gen, row, col, moved[row][col], g, grid)]]]

\* the grid keeping the tiles created before the counter reached k
CreatedBefore(grid, k) ==
    [row \in DOMAIN grid |->
        [col \in DOMAIN grid[row] |->
            IF grid[row][col] # null /\ grid[row][col].id < k THEN grid[row][col] ELSE null]]

\* initializeGame: createEmptyGrid, then two calls of spawnRandomTile
refInitializeGame(grid) ==
    refSpawnRandomTile(2,
        refSpawnRandomTile(1, refEmptyGrid(0, gridLength(grid)), CreatedBefore(grid, 1)),
        grid)

InitCopies ==
    /\ config \in {GameConfigWith(SpawnTwo, m) : m \in {<<1>>, <<2>>}}
    /\ \E g \in FreshGames(config, 0) :
          /\ state = g.state
          /\ tileIdCounter = g.counter
          /\ trail = [live |-> refInitializeGame(g.state.grid), entries |-> <<>>,
                      before |-> refInitializeGame(g.state.grid)]
    /\ res = [NoRes EXCEPT !.op = "initializeGame"]
    /\ made = 0

\* a committed move: cloneGameState(state) is pushed, the live grid is
\* spawnRandomTile(performMove(state.grid))
MovedCopies(direction, pm, m) ==
    /\ state' = m.newState
    /\ tileIdCounter' = m.counter
    /\ res' = [NoRes EXCEPT !.op = "move", !.direction = direction, !.moved = m.moved,
                            !.score = m.score, !.mergedTiles = m.mergedTiles,
                            !.same = m.same]
    /\ trail' = IF ~m.moved THEN trail
                ELSE [live |-> refSpawnRandomTile(3 * made + 5,
                                   refPerformMove(3 * made + 4, trail.live, state.grid,
                                                  pm.grid),
                                   m.newState.grid),
                      entries |-> Slice(<<refCloneGrid(3 * made + 3, trail.live)>>
                                            \o trail.entries,
                                        maxUndoStatesOr10(state.config)),
                      before |-> trail.live]
    /\ made' = IF m.moved THEN made + 1 ELSE made
    /\ UNCHANGED config

MoveCopiesDraws(direction, pm) ==
    /\ pm.moved => made < MaxMoves
    /\ \E cellDraw \in (IF pm.moved THEN CellDraws ELSE {0}),
          valueDraw \in (IF pm.moved THEN ValueDraws ELSE {0}) :
          MovedCopies(direction, pm, moveAfter(state, pm, cellDraw, valueDraw))

MoveCopies(direction) ==
    MoveCopiesDraws(direction,
                    IF state.status = Lost THEN notPerformed(state, tileIdCounter)
                    ELSE performMove(state.grid, direction, tileIdCounter))

\* undo returns { ...previousState, previousStates: ... }: the grid of the entry
UndoCopies ==
    /\ state' = undo(state).state
    /\ res' = [NoRes EXCEPT !.op = "undo", !.same = undo(state).same]
    /\ trail' = IF undo(state).same THEN trail
                ELSE [trail EXCEPT !.live = trail.entries[1],
                                   !.entries = Tail(trail.entries)]
    /\ UNCHANGED <<config, tileIdCounter, made>>

\* continueAfterWin returns { ...state, ... }: the grid of the state
ContinueCopies ==
    /\ state' = continueAfterWin(state).state
    /\ res' = [NoRes EXCEPT !.op = "continueAfterWin", !.same = continueAfterWin(state).same]
    /\ UNCHANGED <<config, tileIdCounter, trail, made>>

NextCopies ==
    \/ \E direction \in Direction : MoveCopies(direction)
    \/ UndoCopies
    \/ ContinueCopies

SpecCopies == InitCopies /\ [][NextCopies]_vars

\* the objects of a tile: the tile, its position, its mergedFrom array, the
\* entries of the array and their positions
ObjectsOfTile(t) ==
    {t.at, t.position}
        \cup (IF t.mergedFrom = noRef THEN {} ELSE {t.mergedFrom})
        \cup {t.entries[i].at : i \in DOMAIN t.entries}
        \cup {t.entries[i].position : i \in DOMAIN t.entries}

\* the objects of a grid: the grid, its rows and the objects of its tiles
ObjectsOf(g) ==
    {g.at} \cup {g.rows[row] : row \in DOMAIN g.rows}
        \cup UNION {ObjectsOfTile(t) : t \in TilesOf(g.tiles)}

\* C21: history entries are deep, independent copies.  The entry that a
\* committed move pushes onto previousStates shares no grid, row, tile, tile
\* position, mergedFrom array or mergedFrom entry, nor the position of such an
\* entry, with the state before the move or with the new live state.
C21_IndependentCopies ==
    (res.op = "move" /\ res.moved) =>
        /\ ObjectsOf(trail.entries[1]) \cap ObjectsOf(trail.before) = {}
        /\ ObjectsOf(trail.entries[1]) \cap ObjectsOf(trail.live) = {}

====
